---- MODULE Spec2Model ----
(***************************************************************************)
(* sdr2zello: the transmission lifecycle coordinator (src/src/app.py), the *)
(* AudioManager and its AudioBuffer (src/src/audio.py), driven by the      *)
(* scanner's two callbacks (src/src/sdr.py).                               *)
(*                                                                         *)
(* Time is counted in polls of monitor_transmission_end: one tick is the   *)
(* 0.5 s of asyncio.sleep(0.5) (app.py:197).  All coroutines run on one    *)
(* event-loop thread; a step of the model is the code a task runs between  *)
(* two suspension points.                                                  *)
(*                                                                         *)
(* Specifications:                                                         *)
(*   Spec     the coordinator: scan cycles, monitors, end_transmission     *)
(*   FairSpec Spec with the event loop's fairness (ready tasks are run)    *)
(*   SpecCap  one lifecycle that is never scanned below squelch, followed  *)
(*            past the 300 s safety limit                                  *)
(*   SpecBuf  one AudioBuffer called directly by a client                  *)
(*   FairSpecBuf  SpecBuf with the fairness of the client's calls          *)
(*   SpecDsp  one DSPProcessor called from two threads                     *)
(*   SpecAudio  the AudioManager's three handlers on one buffer            *)
(*   SpecScan  the scan loop task and the calls of the scanner's API       *)
(*   SpecCycle  the bookkeeping and the delay of the scan cycle            *)
(*   FairSpecCycle  the scan loop running for ever under fair selection    *)
(***************************************************************************)
EXTENDS Integers, Sequences, FiniteSets, TLC

(***************************************************************************)
(* Bounds of the model.                                                    *)
(***************************************************************************)
NumFreqs == 2              \* scan targets
MaxTime == 3               \* ticks followed under Spec
MaxMonitors == 2           \* monitor tasks alive at once
MaxLogs == 2               \* transmission_logs rows created
MaxScans == 3              \* scan cycles followed
TransmissionTimeout == 1   \* settings.transmission_timeout, in seconds
MaxSamples == 2            \* AudioBuffer.max_samples
MaxBlock == 3              \* longest block handed to add_samples
MaxAdded == 5              \* samples offered during one recording
MaxTargets == 2            \* longest scan list
MaxCycles == 3             \* scan cycles sampled under SpecScan
MaxQuiet == 4              \* quiet scans in a row under FairSpecCycle
MaxCalls == 3              \* calls of the scanner's API under SpecScan

(***************************************************************************)
(* Program constants.                                                      *)
(***************************************************************************)
SquelchThreshold == -50    \* settings.squelch_threshold (dBm)
TicksPerSecond == 2        \* asyncio.sleep(0.5)
SafetyLimitSeconds == 300  \* "if elapsed > 300"
NoPeak == -100             \* AudioManager.peak_signal_strength when idle
FloorReading == -100       \* _check_for_transmission's result on an error
QuietThreshold == 3        \* SDRManager.quiet_threshold
AlwaysScanPriority == 50   \* "if freq.priority >= 50"
DefaultMultiplier == 4     \* settings.priority_multiplier 2.0, in halves
DefaultMinWeight == 1      \* settings.min_priority_weight 0.5, in halves
DefaultScanDelay == 100    \* settings.scan_delay 0.1 s, in milliseconds
MinScanDelay == 50         \* SDRManager.min_scan_delay, in milliseconds
MaxScanDelay == 500        \* SDRManager.max_scan_delay, in milliseconds
MaxActivity == 20          \* the cap 10 of a frequency's activity, in halves
Unit == 16                 \* the amplitude 1.0 of "input_max > 1.0"
GainUnit == 1024           \* AutomaticGainControl.gain = 1.0
MinGainDb == -60           \* np.clip(required_gain_db, -60, self.max_gain)
SilenceDb == -102          \* envelope_db of an envelope not above 1e-10
TargetLevel == -18         \* agc_target_level
GateThreshold == -6        \* noise_gate_threshold
DefaultMaxGain == 12       \* agc_max_gain
MaxFrameLen == 2           \* longest block handed to DSPProcessor.process
MaxDspCalls == 3           \* calls of the DSPProcessor under SpecDsp
MaxPlayed == 2             \* blocks play_audio processes under SpecAudio
MaxAudioTime == 1          \* ticks followed under SpecAudio
DspSamples == {0, 5, 32}   \* amplitudes 0, 0.31 (not a float32) and 2.0
MaxGains == {6}            \* values of agc_max_gain handed to update_config, dB
EqGains == {6}             \* values of a band's gain handed to set_eq_gain, dB
PriorityNone == -1         \* Frequency.priority of an object never flushed: None

TimeoutTicks == TransmissionTimeout * TicksPerSecond
SafetyLimitTicks == SafetyLimitSeconds * TicksPerSecond
\* ticks followed under SpecCap: past the safety limit and one more poll
CapHorizon == SafetyLimitTicks + 3

Freqs == 1..NumFreqs
Monitors == 1..MaxMonitors
\* Readings of calculate_power around the squelch threshold.
Readings == {SquelchThreshold - 1, SquelchThreshold + 1, SquelchThreshold + 2}
\* Sample values a demodulator hands over (float64); 0 is the value the
\* buffer is cleared to.
Samples == {2, 3}

VARIABLES
    audio_manager,                  \* app.py: the global is set (not None)
    active_transmissions,           \* app.py: frequency -> lifecycle record
    now,                            \* datetime.now(), in ticks
    spc, scur,                      \* the scan-loop task: position, cycle data
    nscans,                         \* scan cycles begun
    mon,                            \* the monitor_transmission_end tasks
    nextLogId,                      \* transmission_logs autoincrement id
    lastEnd,                        \* the latest end_transmission call (history)
    belowSince,                     \* since when last_signal is below squelch (history)
    bufLock, is_recording, write_index, buffer, start_time,   \* AudioBuffer
    current_transmission_metadata, peak_signal_strength,      \* AudioManager
    current_zello_status,           \* its status dict, or the attribute not yet set
    handoffs,                       \* calls of the completion callback
    cpc, ret, added,                \* a direct client of the AudioBuffer
    stops,                          \* its stop_recording calls since the recording began
    clip,                           \* the array its latest stop_recording returned
    scan_list,                      \* SDRManager: the scan targets
    is_scanning, scan_index,        \* SDRManager
    quiet_skip_count,               \* SDRManager: consecutive quiet scans
    frequency_activity,             \* SDRManager: frequency -> score, in halves
    adaptive_delay_enabled,         \* SDRManager
    scan_delay,                     \* settings.scan_delay, in milliseconds
    center_freq,                    \* the device's centre frequency (0: none yet)
    cancelled,                      \* cancelled _scan_loop tasks not yet woken
    streak,                         \* quiet scans of a frequency in a row (history)
    priority_weights,               \* SDRManager: frequency -> weight
    priority_scanning_enabled, smart_scanning_enabled,
    priority_multiplier,            \* settings, in halves (4 is 2.0)
    min_priority_weight,            \* settings, in halves (1 is 0.5)
    lpc, cur,                       \* the _scan_loop task: position, target
    candidates,                     \* the list the target was selected from
    db,                             \* the frequency values of the frequencies table
    noise_gate,                     \* NoiseGate: threshold, envelope, gate_state
    agc,                            \* AutomaticGainControl: max_gain, envelope, gain
    enabled_modules,                \* DSPProcessor.enabled_modules
    equalizer,                      \* AudioEqualizer: the gain of a band
    dspLock,                        \* DSPProcessor._lock: "free" or its holder
    proc,                           \* a thread in DSPProcessor.process
    upd,                            \* a thread in DSPProcessor.update_config
    dspRet,                         \* the latest finished call of the DSP classes
    ndsp,                           \* calls of the DSP classes made
    last,                           \* the outcome of the latest cycle (history)
    ncycles,                        \* cycles sampled
    api,                            \* the latest call of the scanner's API
    ncalls                          \* calls of the scanner's API made

appVars == <<audio_manager, active_transmissions, now, spc, scur, nscans,
             mon, nextLogId, lastEnd, belowSince>>
bufVars == <<bufLock, is_recording, write_index, buffer, start_time>>
amVars == <<current_transmission_metadata, peak_signal_strength, handoffs,
            current_zello_status>>
clientVars == <<cpc, ret, added, stops, clip>>
\* what the scan cycle keeps besides the quiet counts
cycleVars == <<frequency_activity, center_freq, streak>>
settingVars == <<adaptive_delay_enabled, scan_delay>>
scanVars == <<scan_list, is_scanning, scan_index, quiet_skip_count,
              priority_weights, priority_scanning_enabled,
              smart_scanning_enabled, priority_multiplier, min_priority_weight,
              lpc, cur, candidates, last, ncycles, api, ncalls, db,
              cycleVars, settingVars, cancelled>>
dspVars == <<noise_gate, agc, enabled_modules, equalizer, dspLock, proc, upd,
            dspRet, ndsp>>
notDspVars == <<appVars, bufVars, amVars, clientVars, scanVars>>
vars == <<appVars, bufVars, amVars, clientVars, scanVars, dspVars>>

Min(a, b) == IF a < b THEN a ELSE b
Max(a, b) == IF a > b THEN a ELSE b

(***************************************************************************)
(* AudioBuffer (audio.py:38-108).  The buffer is a float32 array of        *)
(* max_samples entries; here a sequence of that length.                    *)
(***************************************************************************)
\* Assignment into the float32 array rounds the value: two neighbouring
\* float64 values share one float32.
AsFloat32(x) == 2 * (x \div 2)

AsFloat32Seq(s) == [i \in 1..Len(s) |-> AsFloat32(s[i])]

ZeroBuffer == [i \in 1..MaxSamples |-> 0]

\* What the holder of a returned array reads in it now.
ClipNow ==
    IF clip.shares THEN SubSeq(buffer, 1, Len(clip.audio)) ELSE clip.audio

\* The last n elements of s.
LastN(s, n) == SubSeq(s, Len(s) - n + 1, Len(s))

\* An add_samples that advances the cursor by the whole block.
AddSamplesUnclamped(buf, wi, samples) ==
    [buffer |-> buf, write_index |-> wi + Len(samples), err |-> "none"]

\* add_samples under the lock (audio.py:82-102): the buffer, the cursor and
\* whether the second slice assignment raised.
AddSamplesLocked(buf, wi, samples) ==
    LET remaining_space == MaxSamples - wi
        samples_to_add == Min(Len(samples), remaining_space)
        end_idx == wi + samples_to_add
        buf1 == [i \in 1..MaxSamples |->
                    IF samples_to_add > 0 /\ wi < i /\ i <= end_idx
                    THEN AsFloat32(samples[i - wi]) ELSE buf[i]]
        wi1 == IF samples_to_add > 0 THEN end_idx ELSE wi
        overflow == Len(samples) - samples_to_add
        \* buffer[:-overflow] = buffer[overflow:]; both slices are empty
        \* once overflow >= max_samples
        shifted == [i \in 1..MaxSamples |->
                    IF i <= MaxSamples - overflow THEN buf1[i + overflow]
                    ELSE buf1[i]]
        \* buffer[-overflow:] = samples[samples_to_add:]
        tailed == [i \in 1..MaxSamples |->
                    IF i > MaxSamples - overflow
                    THEN AsFloat32(samples[samples_to_add + (i - (MaxSamples - overflow))])
                    ELSE shifted[i]]
    IN  IF samples_to_add < Len(samples) /\ wi1 >= MaxSamples
        THEN IF overflow > MaxSamples
             \* the target slice has max_samples entries, the source more:
             \* numpy raises ValueError, the first part stays written
             THEN [buffer |-> shifted, write_index |-> wi1, err |-> "ValueError"]
             ELSE [buffer |-> tailed, write_index |-> wi1, err |-> "none"]
        ELSE [buffer |-> buf1, write_index |-> wi1, err |-> "none"]

\* An add_samples without the test of line 75.
AddSamplesAlways(samples) == AddSamplesLocked(buffer, write_index, samples)

\* add_samples (audio.py:73-102) on the buffer's current fields.
AddSamples(samples) ==
    IF ~is_recording \/ Len(samples) = 0
    THEN [buffer |-> buffer, write_index |-> write_index, err |-> "none"]
    ELSE AddSamplesLocked(buffer, write_index, samples)

\* A stop_recording that returns the slice buffer[:write_index] itself.
StopRecordingView ==
    [audio |-> IF write_index > 0 THEN SubSeq(buffer, 1, write_index) ELSE <<>>,
     duration |-> IF start_time >= 0 THEN now - start_time ELSE 0,
     shares |-> write_index > 0]

\* stop_recording's result (audio.py:63-71): a copy of the written part and
\* the elapsed ticks (0 when start_time is None, here -1).
\* shares: the returned array is a view of the buffer's memory; .copy() and
\* np.array([]) make arrays of their own.
StopRecordingResult ==
    [audio |-> IF write_index > 0 THEN SubSeq(buffer, 1, write_index) ELSE <<>>,
     duration |-> IF start_time >= 0 THEN now - start_time ELSE 0,
     shares |-> FALSE]

(***************************************************************************)
(* The lifecycle coordinator (app.py:73-279).                              *)
(***************************************************************************)
NoCycle == [f |-> 0, s |-> 0, ts |-> 0]
FreeSlot == [st |-> "free", freq |-> 0, start |-> 0, wake |-> 0]
NoEnd == [freq |-> 0, reason |-> "none", duration |-> 0, belowFor |-> 0,
          removed |-> FALSE]
NoMetadata == [set |-> FALSE, frequency |-> 0, signal_strength |-> 0, timestamp |-> 0]

\* AudioManager.__init__ (audio.py:490-520) sets no current_zello_status;
\* handle_transmission_start creates the dict (audio.py:558-563).
NoStatus == [set |-> FALSE, sent |-> FALSE, success |-> FALSE, error |-> ""]
FreshStatus == [set |-> TRUE, sent |-> FALSE, success |-> FALSE, error |-> ""]

\* The event-loop thread is not stuck in a lock acquisition.
LoopRunning == spc # "start_recording"

FreeSlots == {m \in Monitors : mon[m].st = "free"}
LowestFree == CHOOSE m \in FreeSlots : \A k \in FreeSlots : m <= k

\* A monitor whose asyncio.sleep(0.5) is over.
Due(m) == mon[m].st = "sleep" /\ mon[m].wake <= now

\* The dict operations on active_transmissions.
DictSet(d, k, v) == [x \in (DOMAIN d) \cup {k} |-> IF x = k THEN v ELSE d[x]]
DictDel(d, k) == [x \in (DOMAIN d) \ {k} |-> d[x]]

\* handle_signal_strength_update, the tracking part (app.py:174-181).
SignalTracked(d, f, s) ==
    IF f \in DOMAIN d
    THEN [d EXCEPT ![f].last_signal = s,
                   ![f].peak_signal = Max(d[f].peak_signal, s)]
    ELSE d

\* History: the tick since which the last observed signal of the open record
\* of f has been below squelch without interruption (-1: it is not below).
BelowTracked(f, s) ==
    IF f \in DOMAIN active_transmissions
    THEN [belowSince EXCEPT ![f] =
            IF s < SquelchThreshold
            THEN (IF belowSince[f] >= 0 THEN belowSince[f] ELSE now)
            ELSE -1]
    ELSE belowSince

\* SignalProcessor.detect_transmission (sdr.py:56-59).
DetectTransmission(power) == power > SquelchThreshold

\* The record handle_transmission_event stores (app.py:138-144).
NewRecord(f, s, ts, id) ==
    [start_time |-> ts,
     metadata |-> [signal_strength |-> s, timestamp |-> ts],
     last_signal |-> s,
     peak_signal |-> s,
     transmission_log_id |-> id]

\* A scan cycle begins (sdr.py:222-241, 373-390): a target is selected, a
\* block is read and its power computed; the signal-strength callback is
\* awaited and suspends in manager.broadcast (app.py:159).  A reading above
\* squelch is taken only while a monitor slot and a log id are left.
ScanBeginWith(F, R) ==
    /\ spc = "idle"
    /\ nscans < MaxScans
    /\ nscans' = nscans + 1
    /\ \E f \in F, s \in R :
        /\ DetectTransmission(s) => (FreeSlots # {} /\ nextLogId <= MaxLogs)
        /\ scur' = [f |-> f, s |-> s, ts |-> 0]
    /\ spc' = "signal"
    /\ UNCHANGED <<audio_manager, active_transmissions, now, mon, nextLogId,
                   lastEnd, belowSince, bufVars, amVars, clientVars, scanVars, dspVars>>

ScanBegin == ScanBeginWith(Freqs, Readings)

\* The scan-loop task resumes.
\*  "signal": handle_signal_strength_update updates the tracking
\*      (app.py:174-181); back in _check_for_transmission the block is
\*      tested (sdr.py:393-399); a detection is demodulated, stamped
\*      (sdr.py:431-436) and handed to handle_transmission_event, which
\*      queries the frequency (app.py:84, may raise) and suspends in the
\*      transmission_start broadcast (app.py:98).
\*  "event": app.py:107-147.  With an audio manager,
\*      handle_transmission_start calls start_recording, which takes the
\*      buffer's lock (audio.py:53) and calls clear(), which takes it again
\*      (audio.py:106).  Without one: the log row is created (may raise), the
\*      record stored and the monitor task created; the task's first run
\*      stamps its start_time and sleeps (app.py:194-197).
\*  "start_recording": the thread waits in clear() for the lock, a
\*      threading.Lock that nobody releases.  Were it free, clear() would
\*      empty the buffer and release it, lines 55-57 would run, and the
\*      release at the end of start_recording would raise RuntimeError into
\*      the handler's except (app.py:151).
Scanner ==
    /\ spc \notin {"idle", "cancelled"}
    /\ UNCHANGED nscans
    /\ CASE spc = "signal" ->
            /\ active_transmissions' =
                   SignalTracked(active_transmissions, scur.f, scur.s)
            /\ belowSince' = BelowTracked(scur.f, scur.s)
            /\ \E dbok \in BOOLEAN :
                IF DetectTransmission(scur.s) /\ dbok
                THEN spc' = "event" /\ scur' = [scur EXCEPT !.ts = now]
                ELSE spc' = "idle" /\ scur' = NoCycle
            /\ UNCHANGED <<audio_manager, now, mon, nextLogId, lastEnd,
                           bufVars, amVars, clientVars, scanVars, dspVars>>
         [] spc = "event" ->
            IF audio_manager
            THEN /\ bufLock = "free"
                 /\ bufLock' = "held"
                 /\ spc' = "start_recording"
                 /\ UNCHANGED <<audio_manager, active_transmissions, now, scur,
                                mon, nextLogId, lastEnd, belowSince,
                                is_recording, write_index, buffer, start_time,
                                amVars, clientVars, scanVars, dspVars>>
            ELSE /\ \E dbok \in BOOLEAN :
                    IF dbok
                    THEN /\ active_transmissions' =
                               DictSet(active_transmissions, scur.f,
                                       NewRecord(scur.f, scur.s, scur.ts, nextLogId))
                         /\ belowSince' = [belowSince EXCEPT ![scur.f] = -1]
                         /\ nextLogId' = nextLogId + 1
                         /\ mon' = [mon EXCEPT ![LowestFree] =
                                      [st |-> "sleep", freq |-> scur.f,
                                       start |-> now, wake |-> now + 1]]
                    ELSE UNCHANGED <<active_transmissions, belowSince,
                                     nextLogId, mon>>
                 /\ spc' = "idle" /\ scur' = NoCycle
                 /\ UNCHANGED <<audio_manager, now, lastEnd, bufVars, amVars,
                                clientVars, scanVars, dspVars>>
         [] spc = "start_recording" ->
            /\ bufLock = "free"
            /\ buffer' = ZeroBuffer /\ write_index' = 0
            /\ is_recording' = TRUE /\ start_time' = now
            /\ spc' = "idle" /\ scur' = NoCycle
            /\ UNCHANGED <<audio_manager, active_transmissions, now, mon,
                           nextLogId, lastEnd, belowSince, bufLock, amVars,
                           clientVars, scanVars, dspVars>>

\* AudioManager.handle_transmission_end (audio.py:589-644) as run by
\* end_transmission: stop_recording, and for a non-empty clip the save and
\* the completion callback, then the metadata reset.
HandleTransmissionEnd(f) ==
    LET r == StopRecordingResult
    IN  /\ bufLock = "free"
        /\ is_recording' = FALSE
        /\ IF Len(r.audio) > 0
           THEN /\ handoffs' = Append(handoffs,
                                  [frequency |-> f, audio |-> r.audio,
                                   duration |-> r.duration])
                /\ current_transmission_metadata' = NoMetadata
                /\ peak_signal_strength' = NoPeak
                /\ UNCHANGED current_zello_status
           ELSE UNCHANGED amVars
        /\ UNCHANGED <<bufLock, write_index, buffer, start_time>>

\* end_transmission (app.py:232-279) called by monitor m for a frequency
\* that has a record.  The log update may raise (app.py:264-272); the except
\* at 278 then skips the removal at 275.
EndTransmission(m, f, reason) ==
    LET info == active_transmissions[f]
        duration == now - info.start_time
    IN  /\ IF audio_manager THEN HandleTransmissionEnd(f)
                            ELSE UNCHANGED <<bufVars, amVars>>
        /\ \E dbok \in BOOLEAN :
            /\ active_transmissions' =
                  IF dbok THEN DictDel(active_transmissions, f)
                          ELSE active_transmissions
            /\ lastEnd' = [freq |-> f, reason |-> reason,
                           duration |-> duration,
                           belowFor |-> IF belowSince[f] >= 0
                                        THEN now - belowSince[f] ELSE 0,
                           removed |-> dbok]

\* A monitor that waits one poll longer: "elapsed > timeout".
TimeoutCloseStrict(last_signal, elapsed) ==
    last_signal < SquelchThreshold /\ elapsed > TimeoutTicks

\* The monitor's test for the signal-drop close (app.py:210-212).
TimeoutClose(last_signal, elapsed) ==
    last_signal < SquelchThreshold /\ elapsed >= TimeoutTicks

\* The monitor's test for the safety limit (app.py:221).
SafetyClose(elapsed) == elapsed > SafetyLimitTicks

\* One iteration of monitor_transmission_end after its sleep
\* (app.py:197-223).
MonitorPoll(m) ==
    /\ LoopRunning
    /\ Due(m)
    /\ LET f == mon[m].freq
       IN  IF f \notin DOMAIN active_transmissions
           THEN /\ mon' = [mon EXCEPT ![m] = FreeSlot]
                /\ UNCHANGED <<active_transmissions, lastEnd, bufVars, amVars>>
           ELSE LET info == active_transmissions[f]
                    elapsed == now - mon[m].start
                    last_signal == info.last_signal
                IN  IF TimeoutClose(last_signal, elapsed)
                    THEN /\ EndTransmission(m, f, "timeout")
                         /\ mon' = [mon EXCEPT ![m] = FreeSlot]
                    ELSE IF SafetyClose(elapsed)
                    THEN /\ EndTransmission(m, f, "cap")
                         /\ mon' = [mon EXCEPT ![m] = FreeSlot]
                    ELSE /\ mon' = [mon EXCEPT
                              ![m].start = IF last_signal < SquelchThreshold
                                           THEN mon[m].start ELSE now,
                              ![m].wake = now + 1]
                         /\ UNCHANGED <<active_transmissions, lastEnd,
                                        bufVars, amVars>>
    /\ UNCHANGED <<audio_manager, now, spc, scur, nscans, nextLogId,
                   belowSince, clientVars, scanVars, dspVars>>

\* create_app sets the global audio manager (app.py:344-346).
CreateApp ==
    /\ LoopRunning
    /\ ~audio_manager
    /\ audio_manager' = TRUE
    /\ UNCHANGED <<active_transmissions, now, spc, scur, nscans, mon,
                   nextLogId, lastEnd, belowSince, bufVars, amVars, clientVars, scanVars, dspVars>>

\* Half a second passes.  A running event loop wakes the monitors whose
\* sleep is over before the next half second.
TickTo(horizon) ==
    /\ now < horizon
    /\ LoopRunning => \A m \in Monitors : ~Due(m)
    /\ now' = now + 1
    /\ UNCHANGED <<audio_manager, active_transmissions, spc, scur, nscans,
                   mon, nextLogId, lastEnd, belowSince, bufVars, amVars,
                   clientVars, scanVars, dspVars>>

Tick == TickTo(MaxTime)

NoRet == [op |-> "none", audio |-> <<>>, duration |-> 0, err |-> "none"]

(***************************************************************************)
(* The scanner (sdr.py:95-604).  A scan target is a Frequency object: its  *)
(* frequency, its enabled flag and its priority.  Frequency is a           *)
(* declarative SQLAlchemy class whose priority column has an insert        *)
(* default (models.py:26): an object built without a priority, as          *)
(* add_frequency and _load_default_frequencies build them (sdr.py:166-172, *)
(* 592-597), has priority None until it is flushed, and these are not.     *)
(* Weights and the two weight settings are rationals; the settings are     *)
(* kept in halves, a weight as numerator n over denominator d > 0.         *)
(* frequency_activity, frequency_last_signal and frequency_scan_count only *)
(* shift the odds of the random selection, whose weights are all positive  *)
(* (sdr.py:289, 579): the selection is a choice among the candidates.      *)
(***************************************************************************)
Priorities == {0, AlwaysScanPriority}
MinWeights == {DefaultMinWeight, 6}
MultiplierArgs == {0, 22}
CycleReadings == {SquelchThreshold - 1, SquelchThreshold + 1}
\* Values of settings.scan_delay, in milliseconds.
ScanDelays == {40, DefaultScanDelay, 400}

Target(f, e, p) == [frequency |-> f, enabled |-> e, priority |-> p]
NoTarget == Target(0, FALSE, PriorityNone)
NoLast == [frequency |-> 0, reading |-> 0, err |-> "none", tuned |-> 0,
           events |-> <<>>, delay |-> 0]
\* streak[f].detection: scans of f without a detection since its last
\* detection; streak[f].reset: the same, counted anew after a
\* reset_scanning_state.
NoStreak == [f \in Freqs |-> [detection |-> 0, reset |-> 0]]
NoCall == [op |-> "none", err |-> "none"]

\* [f for f in self.scan_list if f.enabled]
RECURSIVE EnabledOf(_)
EnabledOf(list) ==
    IF list = <<>> THEN <<>>
    ELSE IF Head(list).enabled THEN <<Head(list)>> \o EnabledOf(Tail(list))
    ELSE EnabledOf(Tail(list))

Range(list) == {list[i] : i \in DOMAIN list}
FrequenciesOf(list) == {t.frequency : t \in Range(list)}
HasNonePriority(list) == \E t \in Range(list) : t.priority = PriorityNone

\* A comparison of None with a number raises TypeError; one with a number
\* is the comparison.
RECURSIVE MaxPriority(_)
MaxPriority(list) ==
    IF Len(list) = 1 THEN Head(list).priority
    ELSE Max(Head(list).priority, MaxPriority(Tail(list)))

\* The weight formula (sdr.py:540-543) as a rational.
WeightOf(priority, max_priority, minw, mult) ==
    IF max_priority > 0
    THEN [n |-> minw * max_priority + priority * (mult - minw),
          d |-> 2 * max_priority]
    ELSE [n |-> minw + mult, d |-> 4]

\* The last target of a frequency in the list: the dict entry written last.
LastWith(list, f) ==
    list[CHOOSE i \in DOMAIN list :
            /\ list[i].frequency = f
            /\ \A j \in DOMAIN list : list[j].frequency = f => j <= i]

\* _initialize_priority_scanning (sdr.py:529-547): the new weights dict and
\* the error the call ends with.  The dict is emptied (534) before max() or
\* the comparison on line 540 meets a None.
InitializePriorityScanning(list, minw, mult) ==
    LET enabled_frequencies == EnabledOf(list)
    IN  IF enabled_frequencies = <<>>
        THEN [weights |-> <<>>, err |-> "none"]
        ELSE IF HasNonePriority(enabled_frequencies)
        THEN [weights |-> <<>>, err |-> "TypeError"]
        ELSE LET max_priority == MaxPriority(enabled_frequencies)
             IN  [weights |->
                     [f \in FrequenciesOf(enabled_frequencies) |->
                        WeightOf(LastWith(enabled_frequencies, f).priority,
                                 max_priority, minw, mult)],
                  err |-> "none"]

\* The filter of _get_smart_frequency_list (sdr.py:266-275).
RECURSIVE ActiveOf(_, _)
ActiveOf(list, skip) ==
    IF list = <<>> THEN <<>>
    ELSE IF \/ Head(list).priority >= AlwaysScanPriority
            \/ skip[Head(list).frequency] < QuietThreshold
         THEN <<Head(list)>> \o ActiveOf(Tail(list), skip)
         ELSE ActiveOf(Tail(list), skip)

\* _get_smart_frequency_list (sdr.py:257-277).
SmartFrequencyList(list, smart, skip) ==
    LET enabled_frequencies == EnabledOf(list)
    IN  IF ~smart THEN [list |-> enabled_frequencies, err |-> "none"]
        ELSE IF HasNonePriority(enabled_frequencies)
        THEN [list |-> <<>>, err |-> "TypeError"]
        ELSE LET active_frequencies == ActiveOf(enabled_frequencies, skip)
             IN  [list |-> IF active_frequencies # <<>>
                           THEN active_frequencies ELSE enabled_frequencies,
                  err |-> "none"]

\* max(1.0, min(10.0, multiplier)) (sdr.py:514), in halves.
ClampMultiplier(m) == Max(2, Min(20, m))

\* dict.get(k, 0) of the activity dict, and the dict with d[k] = v.
ActivityOf(activity, k) == IF k \in DOMAIN activity THEN activity[k] ELSE 0
Put(d, k, v) == [g \in DOMAIN d \cup {k} |-> IF g = k THEN v ELSE d[g]]

\* An _update_scanning_state whose silence costs a whole point.
UpdateScanningStateFullDecay(quiet, activity, freq_key, signal_strength) ==
    IF signal_strength > SquelchThreshold
    THEN [quiet |-> [quiet EXCEPT ![freq_key] = 0],
          activity |-> Put(activity, freq_key,
                           Min(MaxActivity, ActivityOf(activity, freq_key) + 2))]
    ELSE [quiet |-> [quiet EXCEPT ![freq_key] = @ + 1],
          activity |-> IF freq_key \in DOMAIN activity
                       THEN Put(activity, freq_key,
                                Max(0, activity[freq_key] - 2))
                       ELSE activity]

\* _update_scanning_state (sdr.py:306-328): the quiet counts and the
\* activity scores after a scan of freq_key that read signal_strength.
UpdateScanningState(quiet, activity, freq_key, signal_strength) ==
    LET is_active == signal_strength > SquelchThreshold
    IN  IF is_active
        THEN [quiet |-> [quiet EXCEPT ![freq_key] = 0],
              activity |-> Put(activity, freq_key,
                               Min(MaxActivity,
                                   ActivityOf(activity, freq_key) + 2))]
        ELSE [quiet |-> [quiet EXCEPT ![freq_key] = @ + 1],
              activity |-> IF freq_key \in DOMAIN activity
                           THEN Put(activity, freq_key,
                                    Max(0, activity[freq_key] - 1))
                           ELSE activity]

\* A _calculate_adaptive_delay that lengthens the delay from the
\* threshold on.
CalculateAdaptiveDelayAtThreshold(enabled, base_delay, skip_count, signal_strength) ==
    IF ~enabled THEN base_delay
    ELSE IF signal_strength > SquelchThreshold
    THEN Max(MinScanDelay, base_delay \div 2)
    ELSE IF skip_count >= QuietThreshold
    THEN Min(MaxScanDelay, (base_delay * (5 + skip_count)) \div 5)
    ELSE base_delay

\* _calculate_adaptive_delay (sdr.py:330-352), in milliseconds; skip_count
\* is the quiet count _update_scanning_state left.  base_delay * 0.5 and
\* base_delay * (1 + skip_count * 0.2) are exact for the delays of
\* ScanDelays.
CalculateAdaptiveDelay(enabled, base_delay, skip_count, signal_strength) ==
    IF ~enabled THEN base_delay
    ELSE IF signal_strength > SquelchThreshold
    THEN Max(MinScanDelay, base_delay \div 2)
    ELSE IF skip_count > QuietThreshold
    THEN Min(MaxScanDelay, (base_delay * (5 + skip_count)) \div 5)
    ELSE base_delay

\* What one cycle did, in the order of the code (sdr.py:238-250, 367-405):
\* the tuning, the block read, the signal-strength callback, the
\* transmission callback, the bookkeeping and the delay.
CycleEvents(tune_error, sample_error, power) ==
    <<IF tune_error THEN "tune_failed" ELSE "tuned">>
    \o (IF sample_error THEN <<"read_failed">>
        ELSE <<"sample", "signal_strength">>
             \o (IF DetectTransmission(power) THEN <<"transmission">>
                 ELSE <<>>))
    \o <<"bookkeeping", "delay">>

\* SDRManager.__init__ (sdr.py:98-127) with the default settings.
InitScanner ==
    /\ scan_list = <<>>
    /\ is_scanning = FALSE
    /\ scan_index = 0
    /\ quiet_skip_count = [f \in Freqs |-> 0]
    /\ frequency_activity = <<>>
    /\ adaptive_delay_enabled = TRUE
    /\ scan_delay = DefaultScanDelay
    /\ center_freq = 0
    /\ cancelled = <<>>
    /\ streak = NoStreak
    /\ priority_weights = <<>>
    /\ priority_scanning_enabled = TRUE
    /\ smart_scanning_enabled = TRUE
    /\ priority_multiplier = DefaultMultiplier
    /\ min_priority_weight = DefaultMinWeight
    /\ lpc = "none"
    /\ cur = NoTarget
    /\ candidates = <<>>
    /\ db = {}
    /\ last = NoLast
    /\ ncycles = 0
    /\ api = NoCall
    /\ ncalls = 0

(***************************************************************************)
(* The DSP classes (dsp_filters.py).  A sample is an integer amplitude,    *)
(* Unit standing for 1.0; a gain is an integer, GainUnit standing for 1.0. *)
(* Levels in dB are multiples of 6: 6 dB is a factor 2 of the amplitude    *)
(* (10^(6/20) = 1.995), so 10^(db/20) is a power of 2, and since 20*log10  *)
(* is increasing, "envelope_db > threshold" is the comparison of the       *)
(* envelope with the threshold's amplitude.  The attack and release        *)
(* coefficients exp(-1/(time * sample_rate)) are two rationals between 0   *)
(* and 1, the attack the smaller.                                          *)
(***************************************************************************)
Abs(x) == IF x < 0 THEN -x ELSE x

AttackCoeff == [n |-> 1, d |-> 4]
ReleaseCoeff == [n |-> 1, d |-> 2]

\* 10^(db/20) times one, for db a multiple of 6.
LinearOf(level_db, one) ==
    IF level_db >= 0 THEN one * 2^(level_db \div 6)
    ELSE one \div 2^((-level_db) \div 6)

\* np.clip(x, lo, hi) = minimum(maximum(x, lo), hi)
Clip(x, lo, hi) == Min(Max(x, lo), hi)

\* One step of the envelope follower (dsp_filters.py:47, 51-54, 112, 116-119).
EnvelopeStep(envelope, abs_sample) ==
    IF abs_sample > envelope
    THEN abs_sample + (AttackCoeff.n * (envelope - abs_sample)) \div AttackCoeff.d
    ELSE abs_sample + (ReleaseCoeff.n * (envelope - abs_sample)) \div ReleaseCoeff.d

\* envelope_array (dsp_filters.py:46-54) from the stored envelope.
RECURSIVE EnvelopeArray(_, _)
EnvelopeArray(envelope, samples) ==
    IF samples = <<>> THEN <<>>
    ELSE LET e == EnvelopeStep(envelope, Abs(Head(samples)))
         IN  <<e>> \o EnvelopeArray(e, Tail(samples))

\* A gate with one threshold: open exactly while the envelope is above it.
GateDecisionOneThreshold(current_state, e, threshold) ==
    e > LinearOf(threshold, Unit)

\* One step of the gate's state machine (dsp_filters.py:63, 68-72).
GateDecision(current_state, e, threshold) ==
    LET threshold_low == threshold - 6
    IN  IF e > LinearOf(threshold, Unit) THEN TRUE
        ELSE IF e < LinearOf(threshold_low, Unit) THEN FALSE
        ELSE current_state

\* gate_mask (dsp_filters.py:66-73) from the stored gate_state.
RECURSIVE GateMask(_, _, _)
GateMask(current_state, envelopes, threshold) ==
    IF envelopes = <<>> THEN <<>>
    ELSE LET st == GateDecision(current_state, Head(envelopes), threshold)
         IN  <<st>> \o GateMask(st, Tail(envelopes), threshold)

\* NoiseGate.process (dsp_filters.py:35-80): the gate after the call, the
\* output, and the envelope and the state at every sample.
NoiseGateProcess(gate, audio_data) ==
    IF Len(audio_data) = 0
    THEN [gate |-> gate, output |-> audio_data, envelopes |-> <<>>, mask |-> <<>>]
    ELSE LET envelope_array == EnvelopeArray(gate.envelope, audio_data)
             gate_mask == GateMask(gate.gate_state, envelope_array, gate.threshold)
         IN  [gate |-> [threshold |-> gate.threshold,
                        envelope |-> envelope_array[Len(audio_data)],
                        gate_state |-> gate_mask[Len(audio_data)]],
              output |-> [i \in 1..Len(audio_data) |->
                            IF gate_mask[i] THEN audio_data[i] ELSE 0],
              envelopes |-> envelope_array,
              mask |-> gate_mask]

\* NoiseGate.__init__ (dsp_filters.py:21-33) with the configured threshold.
InitNoiseGate == [threshold |-> GateThreshold, envelope |-> 0, gate_state |-> FALSE]


\* One step of the gain smoothing (dsp_filters.py:136-139).
GainStep(current_gain, target_gain) ==
    IF target_gain > current_gain
    THEN target_gain + (AttackCoeff.n * (current_gain - target_gain)) \div AttackCoeff.d
    ELSE target_gain + (ReleaseCoeff.n * (current_gain - target_gain)) \div ReleaseCoeff.d

\* target_gain_array (dsp_filters.py:125-128) for one envelope value: the
\* gain that brings the envelope to the target level, or the gain for the
\* level of silence, clipped in dB to [-60, max_gain].
TargetGain(envelope, target_level, max_gain) ==
    LET required == IF envelope > 0
                    THEN (GainUnit * LinearOf(target_level, Unit)) \div envelope
                    ELSE LinearOf(target_level - SilenceDb, GainUnit)
    IN  Clip(required, LinearOf(MinGainDb, GainUnit), LinearOf(max_gain, GainUnit))

\* gain_array (dsp_filters.py:131-140) from the stored gain.
RECURSIVE GainArray(_, _, _, _)
GainArray(current_gain, envelopes, target_level, max_gain) ==
    IF envelopes = <<>> THEN <<>>
    ELSE LET g == GainStep(current_gain,
                           TargetGain(Head(envelopes), target_level, max_gain))
         IN  <<g>> \o GainArray(g, Tail(envelopes), target_level, max_gain)

\* AutomaticGainControl.process (dsp_filters.py:102-147).
AgcProcess(a, audio_data) ==
    IF Len(audio_data) = 0
    THEN [agc |-> a, output |-> audio_data, gains |-> <<>>]
    ELSE LET envelope_array == EnvelopeArray(a.envelope, audio_data)
             gain_array == GainArray(a.gain, envelope_array, a.target_level,
                                     a.max_gain)
         IN  [agc |-> [a EXCEPT !.envelope = envelope_array[Len(audio_data)],
                                !.gain = gain_array[Len(audio_data)]],
              output |-> [i \in 1..Len(audio_data) |->
                            (audio_data[i] * gain_array[i]) \div GainUnit],
              gains |-> gain_array]

\* AutomaticGainControl.__init__ (dsp_filters.py:86-100).
InitAgc(max_gain) == [target_level |-> TargetLevel, max_gain |-> max_gain,
                      envelope |-> 0, gain |-> GainUnit]

\* SpectralNoiseReduction.process (dsp_filters.py:217-252) for a block that
\* leaves fewer than frame_size samples buffered: the loop of line 226 is
\* not entered and the zeros of line 222 are returned.
NoiseReductionProcess(audio_data) == [i \in 1..Len(audio_data) |-> 0]

\* AudioEqualizer.process (dsp_filters.py:335-355): with every band's gain
\* within 0.1 dB of zero no filter runs and the input itself is returned.
\* The filtered samples of an active band are not followed.
EqualizerProcess(audio_data) == audio_data

\* The stages in the order of the chain (dsp_filters.py:464-474).
Stages == <<"noise_gate", "noise_reduction", "equalizer", "agc">>
StageNames == {Stages[i] : i \in DOMAIN Stages}

\* The input normalisation and the clipping guard (dsp_filters.py:448-450,
\* 480-482).
MaxAbs(samples) ==
    IF samples = <<>> THEN 0
    ELSE CHOOSE m \in {Abs(samples[i]) : i \in DOMAIN samples} :
            \A i \in DOMAIN samples : Abs(samples[i]) <= m
Normalized(samples) ==
    IF MaxAbs(samples) > Unit
    THEN [i \in DOMAIN samples |-> (samples[i] * Unit) \div MaxAbs(samples)]
    ELSE samples

\* audio_data.astype(np.float32, copy=False) when the dtype differs
\* (dsp_filters.py:444-445).
Converted(samples, dtype) ==
    IF dtype # "float32" THEN AsFloat32Seq(samples) ELSE samples

\* The enabled stages in the chain's order.
RECURSIVE EnabledStages(_, _)
EnabledStages(flags, i) ==
    IF i > Len(Stages) THEN <<>>
    ELSE (IF flags[Stages[i]] THEN <<Stages[i]>> ELSE <<>>)
         \o EnabledStages(flags, i + 1)

NoDspCall == [op |-> "none"]

\* The stage after a stage of the chain (dsp_filters.py:464-474).
StageAfterSkippingEqualizer(stage) ==
    CASE stage = "noise_gate" -> "noise_reduction"
      [] stage = "noise_reduction" -> "agc"
      [] stage = "equalizer" -> "agc"
      [] stage = "agc" -> "finish"
StageAfter(stage) ==
    CASE stage = "noise_gate" -> "noise_reduction"
      [] stage = "noise_reduction" -> "equalizer"
      [] stage = "equalizer" -> "agc"
      [] stage = "agc" -> "finish"

\* The frames handed to DSPProcessor.process and their dtype: a frame of
\* float32 amplitudes arrives as float32, any other as float64.
DspFrames == UNION {[1..n -> DspSamples] : n \in 0..MaxFrameLen}
DtypeOf(frame) ==
    IF \A i \in DOMAIN frame : AsFloat32(frame[i]) = frame[i]
    THEN "float32" ELSE "float64"

\* No call of process in progress.
NoGate == [before |-> FALSE, input |-> <<>>, envelopes |-> <<>>, mask |-> <<>>,
           output |-> <<>>]
NoGains == [max_gain |-> 0, before |-> 0, gains |-> <<>>]
IdleProc == [pc |-> "idle", input |-> <<>>, dtype |-> "float32",
             audio_data |-> <<>>, output |-> <<>>, applied |-> <<>>,
             gate |-> NoGate, gains |-> NoGains]

\* The arguments of update_config (dsp_filters.py:405-429) and set_eq_gain.
Configs ==
    {[has_max_gain |-> TRUE, agc_max_gain |-> m, has_flags |-> FALSE,
      enable |-> FALSE] : m \in MaxGains}
    \cup {[has_max_gain |-> FALSE, agc_max_gain |-> 0, has_flags |-> TRUE,
           enable |-> b] : b \in BOOLEAN}
IdleUpd == [pc |-> "idle", op |-> "none",
            config |-> [has_max_gain |-> FALSE, agc_max_gain |-> 0,
                        has_flags |-> FALSE, enable |-> FALSE],
            gain_db |-> 0, i |-> 0]

\* DSPProcessor.__init__ (dsp_filters.py:361-403).
InitProcessor(flags, max_gain) ==
    /\ noise_gate = InitNoiseGate
    /\ agc = InitAgc(max_gain)
    /\ enabled_modules = flags
    /\ equalizer = 0
    /\ dspLock = "free"
    /\ proc = IdleProc
    /\ upd = IdleUpd
    /\ dspRet = NoDspCall
    /\ ndsp = 0

\* The defaults of lines 385-390 and 373.
DefaultFlags == [s \in StageNames |-> s = "agc"]
InitDsp == InitProcessor(DefaultFlags, DefaultMaxGain)

\* The flags of Settings.get_dsp_config (config.py:46, 51, 58), with which
\* the AudioManager builds its processor (audio.py:494-510).
SettingsFlags == [s \in StageNames |-> s \in {"noise_gate", "agc"}]

\* One call of process (dsp_filters.py:436-484) run from beginning to end
\* with no stage raising: the gate and the AGC after it, and the output.
DspProcess(flags, gate, a, frame) ==
    LET audio_data == Normalized(Converted(frame, DtypeOf(frame)))
        g == IF flags["noise_gate"] THEN NoiseGateProcess(gate, audio_data)
             ELSE [gate |-> gate, output |-> audio_data]
        nr == IF flags["noise_reduction"] THEN NoiseReductionProcess(g.output)
              ELSE g.output
        eq == IF flags["equalizer"] THEN EqualizerProcess(nr) ELSE nr
        ag == IF flags["agc"] THEN AgcProcess(a, eq)
              ELSE [agc |-> a, output |-> eq]
    IN  [gate |-> g.gate, agc |-> ag.agc, output |-> Normalized(ag.output)]

\* `with self._lock:` of update_config and set_eq_gain entered whatever the
\* lock's state.
UpdateEntersUnlocked == TRUE
\* `with self._lock:` (dsp_filters.py:407, 433): entered when the lock is free.
UpdateMayEnter == dspLock = "free"

\* The call's result as the caller sees it.
ProcessReturn(p, output, raised) ==
    [op |-> "process", input |-> p.input, dtype |-> p.dtype,
     output |-> output, applied |-> p.applied,
     flags |-> enabled_modules, raised |-> raised, err |-> "none",
     gate |-> p.gate, gains |-> p.gains]

\* process is called (dsp_filters.py:436-439): an empty block is returned at
\* once, without the lock.
ProcBegin ==
    /\ proc.pc = "idle"
    /\ ndsp < MaxDspCalls
    /\ \E frame \in DspFrames :
        /\ ndsp' = ndsp + 1
        /\ IF Len(frame) = 0
           THEN /\ dspRet' = ProcessReturn(IdleProc, frame, FALSE)
                /\ proc' = proc
           ELSE /\ proc' = [IdleProc EXCEPT !.pc = "acquire", !.input = frame,
                                            !.dtype = DtypeOf(frame)]
                /\ dspRet' = dspRet
    /\ UNCHANGED notDspVars
    /\ UNCHANGED <<noise_gate, agc, enabled_modules, equalizer, dspLock, upd>>

\* The lock is taken, the block converted to float32 and normalised in place,
\* and the working copy made (dsp_filters.py:441-461).
ProcAcquire ==
    /\ proc.pc = "acquire"
    /\ dspLock = "free"
    /\ dspLock' = "process"
    /\ LET audio_data == Normalized(Converted(proc.input, proc.dtype))
       IN  proc' = [proc EXCEPT !.pc = "noise_gate", !.audio_data = audio_data,
                                !.output = audio_data]
    /\ UNCHANGED notDspVars
    /\ UNCHANGED <<noise_gate, agc, enabled_modules, equalizer, upd, dspRet, ndsp>>

\* One stage of the chain (dsp_filters.py:464-474), skipped when its flag is
\* off; an exception raised by the stage is caught at line 486 and the
\* array named audio_data returned (line 488). After the last stage the
\* clipping guard runs and the output is returned (lines 477-484).
ProcStage ==
    /\ proc.pc \in StageNames
    /\ \E raises \in BOOLEAN :
       LET stage == proc.pc
           on == enabled_modules[stage]
           g == NoiseGateProcess(noise_gate, proc.output)
           a == AgcProcess(agc, proc.output)
           out == IF ~on THEN proc.output
                  ELSE CASE stage = "noise_gate" -> g.output
                         [] stage = "noise_reduction" -> NoiseReductionProcess(proc.output)
                         [] stage = "equalizer" -> EqualizerProcess(proc.output)
                         [] stage = "agc" -> a.output
           after == [proc EXCEPT
                       !.pc = StageAfter(stage),
                       !.output = out,
                       !.applied = IF on THEN Append(@, stage) ELSE @,
                       !.gate = IF on /\ stage = "noise_gate"
                                THEN [before |-> noise_gate.gate_state,
                                      input |-> proc.output,
                                      envelopes |-> g.envelopes,
                                      mask |-> g.mask, output |-> g.output]
                                ELSE @,
                       !.gains = IF on /\ stage = "agc"
                                 THEN [max_gain |-> agc.max_gain,
                                       before |-> agc.gain, gains |-> a.gains]
                                 ELSE @]
       IN  IF on /\ raises
           THEN /\ dspRet' = ProcessReturn(proc, proc.audio_data, TRUE)
                /\ proc' = IdleProc
                /\ dspLock' = "free"
                /\ UNCHANGED <<noise_gate, agc>>
           ELSE /\ noise_gate' = IF on /\ stage = "noise_gate" THEN g.gate
                                 ELSE noise_gate
                /\ agc' = IF on /\ stage = "agc" THEN a.agc ELSE agc
                /\ IF after.pc = "finish"
                   THEN /\ dspRet' = ProcessReturn(after, Normalized(after.output),
                                                   FALSE)
                        /\ proc' = IdleProc
                        /\ dspLock' = "free"
                   ELSE /\ proc' = after
                        /\ UNCHANGED <<dspRet, dspLock>>
    /\ UNCHANGED notDspVars
    /\ UNCHANGED <<enabled_modules, equalizer, upd, ndsp>>

\* update_config or set_eq_gain is called.
UpdBegin ==
    /\ upd.pc = "idle"
    /\ ndsp < MaxDspCalls
    /\ ndsp' = ndsp + 1
    /\ \/ \E config \in Configs :
            upd' = [IdleUpd EXCEPT !.pc = "acquire", !.op = "update_config",
                                   !.config = config]
       \/ \E gain_db \in EqGains :
            upd' = [IdleUpd EXCEPT !.pc = "acquire", !.op = "set_eq_gain",
                                   !.gain_db = gain_db]
    /\ UNCHANGED notDspVars
    /\ UNCHANGED <<noise_gate, agc, enabled_modules, equalizer, dspLock, proc,
                   dspRet>>

\* `with self._lock:`, then the parameters of update_config (lines 410-422)
\* or the band's gain of set_eq_gain (line 434), which then returns.
UpdAcquire ==
    /\ upd.pc = "acquire"
    /\ UpdateMayEnter
    /\ IF upd.op = "set_eq_gain"
       THEN /\ equalizer' = upd.gain_db
            /\ upd' = IdleUpd
            /\ dspLock' = dspLock
            /\ agc' = agc
       ELSE /\ agc' = IF upd.config.has_max_gain
                      THEN [agc EXCEPT !.max_gain = upd.config.agc_max_gain]
                      ELSE agc
            /\ upd' = [upd EXCEPT !.pc = "flags", !.i = 1]
            /\ dspLock' = "update"
            /\ equalizer' = equalizer
    /\ UNCHANGED notDspVars
    /\ UNCHANGED <<noise_gate, enabled_modules, proc, dspRet, ndsp>>

\* One turn of the loop over the modules (lines 424-427); the lock is
\* released after the last.
UpdFlag ==
    /\ upd.pc = "flags"
    /\ enabled_modules' = IF upd.config.has_flags
                          THEN [enabled_modules EXCEPT ![Stages[upd.i]] = upd.config.enable]
                          ELSE enabled_modules
    /\ IF upd.i = Len(Stages)
       THEN /\ upd' = IdleUpd
            /\ dspLock' = "free"
       ELSE /\ upd' = [upd EXCEPT !.i = @ + 1]
            /\ dspLock' = dspLock
    /\ UNCHANGED notDspVars
    /\ UNCHANGED <<noise_gate, agc, equalizer, proc, dspRet, ndsp>>

InitBuffer ==
    /\ bufLock = "free"
    /\ is_recording = FALSE
    /\ write_index = 0
    /\ buffer = ZeroBuffer
    /\ start_time = -1

InitAudioManager ==
    /\ current_transmission_metadata = NoMetadata
    /\ peak_signal_strength = NoPeak
    /\ handoffs = <<>>
    /\ current_zello_status = NoStatus

NoClip == [taken |-> FALSE, audio |-> <<>>, shares |-> FALSE]

InitClient ==
    /\ cpc = "ready"
    /\ ret = NoRet
    /\ added = <<>>
    /\ stops = 0
    /\ clip = NoClip

Init ==
    /\ audio_manager = FALSE
    /\ active_transmissions = <<>>
    /\ now = 0
    /\ spc = "idle"
    /\ scur = NoCycle
    /\ nscans = 0
    /\ mon = [m \in Monitors |-> FreeSlot]
    /\ nextLogId = 1
    /\ lastEnd = NoEnd
    /\ belowSince = [f \in Freqs |-> -1]
    /\ InitBuffer
    /\ InitAudioManager
    /\ InitClient
    /\ InitScanner
    /\ InitDsp

Next ==
    \/ CreateApp
    \/ ScanBegin
    \/ Scanner
    \/ \E m \in Monitors : MonitorPoll(m)
    \/ Tick

Spec == Init /\ [][Next]_vars

\* The event loop runs every task that is ready, and time passes.
FairSpec ==
    /\ Spec
    /\ WF_vars(Scanner)
    /\ \A m \in Monitors : WF_vars(MonitorPoll(m))
    /\ WF_vars(Tick)

(***************************************************************************)
(* SpecCap: a lifecycle opened at tick 0 on frequency 1 (the state Spec    *)
(* reaches by one detection without an audio manager), after which the     *)
(* frequency is either not scanned again or read exactly at the squelch    *)
(* threshold: never below it, and not detected again (sdr.py:59).          *)
(***************************************************************************)
CapReadings == {SquelchThreshold}

InitCap ==
    /\ audio_manager = FALSE
    /\ active_transmissions =
          DictSet(<<>>, 1, NewRecord(1, SquelchThreshold + 1, 0, 1))
    /\ now = 0
    /\ spc = "idle"
    /\ scur = NoCycle
    /\ nscans = 0
    /\ mon = [m \in Monitors |->
                IF m = 1 THEN [st |-> "sleep", freq |-> 1,
                               start |-> 0, wake |-> 1]
                         ELSE FreeSlot]
    /\ nextLogId = 2
    /\ lastEnd = NoEnd
    /\ belowSince = [f \in Freqs |-> -1]
    /\ InitBuffer
    /\ InitAudioManager
    /\ InitClient
    /\ InitScanner
    /\ InitDsp

ScanBeginCap == ScanBeginWith({1}, CapReadings)

\* stop_scanning (sdr.py:200-213) while the scan-loop task sleeps between
\* two cycles (sdr.py:250): the task is cancelled there and runs no cycle
\* again.  scur.ts keeps the time of the call.
StopScanningCap ==
    /\ spc = "idle"
    /\ spc' = "cancelled"
    /\ scur' = [f |-> 0, s |-> 0, ts |-> now]
    /\ UNCHANGED <<audio_manager, active_transmissions, now, nscans, mon,
                   nextLogId, lastEnd, belowSince, bufVars, amVars, clientVars,
                   scanVars, dspVars>>

TickCap == TickTo(CapHorizon)

NextCap ==
    \/ ScanBeginCap
    \/ StopScanningCap
    \/ Scanner
    \/ \E m \in Monitors : MonitorPoll(m)
    \/ TickCap

SpecCap == InitCap /\ [][NextCap]_vars

(***************************************************************************)
(* SpecBuf: one AudioBuffer and a single-threaded client calling its       *)
(* methods.  The buffer starts as constructed (audio.py:41-49) or as lines *)
(* 55-57 of start_recording leave it, the state every recording starts     *)
(* from; the call of start_recording itself never gets that far.           *)
(***************************************************************************)
Blocks == UNION {[1..n -> Samples] : n \in 0..MaxBlock}

InitBuf ==
    /\ audio_manager = FALSE
    /\ active_transmissions = <<>>
    /\ now = 0
    /\ spc = "idle"
    /\ scur = NoCycle
    /\ nscans = 0
    /\ mon = [m \in Monitors |-> FreeSlot]
    /\ nextLogId = 1
    /\ lastEnd = NoEnd
    /\ belowSince = [f \in Freqs |-> -1]
    /\ bufLock = "free"
    /\ is_recording \in BOOLEAN
    /\ write_index = 0
    /\ buffer = ZeroBuffer
    /\ start_time = IF is_recording THEN 0 ELSE -1
    /\ InitAudioManager
    /\ InitClient
    /\ InitScanner
    /\ InitDsp

\* start_recording (audio.py:51-57).  From "ready": the lock is taken (line
\* 53) and clear() is called.  In clear() (line 106) the thread waits for the
\* same lock; with it, the buffer would be emptied and lines 55-57 run.
BufStartRecording ==
    /\ CASE cpc = "ready" ->
            /\ bufLock = "free"
            /\ bufLock' = "held"
            /\ cpc' = "start_recording"
            /\ ret' = [NoRet EXCEPT !.op = "start_recording"]
            /\ UNCHANGED <<is_recording, write_index, buffer, start_time, added,
                           stops, clip>>
         [] cpc = "start_recording" ->
            /\ bufLock = "free"
            /\ buffer' = ZeroBuffer /\ write_index' = 0
            /\ is_recording' = TRUE /\ start_time' = now
            /\ cpc' = "ready" /\ added' = <<>> /\ stops' = 0
            /\ UNCHANGED <<bufLock, ret, clip>>
    /\ UNCHANGED <<appVars, amVars, scanVars, dspVars>>

\* add_samples (audio.py:73-102); a ValueError leaves the with-block, which
\* releases the lock, and reaches the caller.
BufAddSamples ==
    /\ cpc = "ready" /\ bufLock = "free"
    /\ \E samples \in Blocks :
        /\ Len(added) + Len(samples) <= MaxAdded
        /\ LET r == AddSamples(samples)
           IN  /\ buffer' = r.buffer
               /\ write_index' = r.write_index
               /\ ret' = [NoRet EXCEPT !.op = "add_samples", !.err = r.err,
                                       !.audio = samples]
        /\ added' = IF is_recording THEN added \o samples ELSE added
    /\ UNCHANGED <<appVars, amVars, scanVars, dspVars, bufLock, is_recording, start_time, cpc,
                   stops, clip>>

\* stop_recording (audio.py:59-71).
BufStopRecording ==
    /\ cpc = "ready" /\ bufLock = "free"
    /\ is_recording' = FALSE
    /\ ret' = [NoRet EXCEPT !.op = "stop_recording",
                            !.audio = StopRecordingResult.audio,
                            !.duration = StopRecordingResult.duration]
    /\ stops' = Min(stops + 1, 2)
    /\ clip' = [taken |-> TRUE, audio |-> StopRecordingResult.audio,
                shares |-> StopRecordingResult.shares]
    /\ UNCHANGED <<appVars, amVars, scanVars, dspVars, bufLock, write_index, buffer, start_time,
                   cpc, added>>

\* clear (audio.py:104-108) called by the client.
BufClear ==
    /\ cpc = "ready" /\ bufLock = "free"
    /\ buffer' = ZeroBuffer
    /\ write_index' = 0
    /\ ret' = [NoRet EXCEPT !.op = "clear"]
    /\ added' = <<>>
    /\ UNCHANGED <<appVars, amVars, scanVars, dspVars, bufLock, is_recording, start_time, cpc,
                   stops, clip>>

NextBuf ==
    \/ BufStartRecording
    \/ BufAddSamples
    \/ BufStopRecording
    \/ BufClear
    \/ Tick

SpecBuf == InitBuf /\ [][NextBuf]_vars

\* A thread that can go on inside start_recording does.
FairSpecBuf == SpecBuf /\ WF_vars(BufStartRecording)

(***************************************************************************)
(* SpecAudio: one AudioManager and a caller of its three handlers.  The    *)
(* manager starts as constructed (audio.py:490-520) or as the lines        *)
(* 553-563 of handle_transmission_start leave it; the call itself stops in *)
(* start_recording (audio.py:550).  The playback sink works, fails while   *)
(* playing (audio.py:207-210) or is not there (audio.py:184-185).          *)
(***************************************************************************)
Sinks == {"ok", "failed", "unavailable"}

\* The error text play_audio returns with success False.
SinkError(sink) ==
    CASE sink = "ok" -> ""
      [] sink = "failed" -> "stream error"
      [] sink = "unavailable" -> "Audio device not initialized or empty audio data"

StartedMetadata == [set |-> TRUE, frequency |-> 1,
                    signal_strength |-> SquelchThreshold + 1, timestamp |-> 0]

\* A DSPProcessor built with any flags and the default max_gain.
InitDspAny ==
    /\ \E flags \in [StageNames -> BOOLEAN] :
            InitProcessor(flags, DefaultMaxGain)
    /\ audio_manager = TRUE
    /\ active_transmissions = <<>>
    /\ now = 0
    /\ spc = "idle"
    /\ scur = NoCycle
    /\ nscans = 0
    /\ mon = [m \in Monitors |-> FreeSlot]
    /\ nextLogId = 1
    /\ lastEnd = NoEnd
    /\ belowSince = [f \in Freqs |-> -1]
    /\ InitBuffer
    /\ InitAudioManager
    /\ InitClient
    /\ InitScanner

NextDsp ==
    \/ ProcBegin
    \/ ProcAcquire
    \/ ProcStage
    \/ UpdBegin
    \/ UpdAcquire
    \/ UpdFlag

SpecDsp == InitDspAny /\ [][NextDsp]_vars

InitAudio ==
    /\ audio_manager = TRUE
    /\ active_transmissions = <<>>
    /\ now = 0
    /\ spc = "idle"
    /\ scur = NoCycle
    /\ nscans = 0
    /\ mon = [m \in Monitors |-> FreeSlot]
    /\ nextLogId = 1
    /\ lastEnd = NoEnd
    /\ belowSince = [f \in Freqs |-> -1]
    /\ bufLock = "free"
    /\ is_recording \in BOOLEAN
    /\ write_index = 0
    /\ buffer = ZeroBuffer
    /\ start_time = IF is_recording THEN 0 ELSE -1
    /\ current_transmission_metadata =
          IF is_recording THEN StartedMetadata ELSE NoMetadata
    /\ peak_signal_strength =
          IF is_recording THEN SquelchThreshold + 1 ELSE NoPeak
    /\ handoffs = <<>>
    /\ current_zello_status = IF is_recording THEN FreshStatus ELSE NoStatus
    /\ InitClient
    /\ InitScanner
    /\ InitProcessor(SettingsFlags, DefaultMaxGain)

\* handle_transmission_start (audio.py:547-563).  From "ready":
\* start_recording takes the lock (audio.py:53) and calls clear(), which
\* waits for it (audio.py:106).  With the lock, the buffer would be emptied,
\* the recording begun, and lines 553-563 would set metadata and status.
AmHandleTransmissionStart ==
    /\ CASE cpc = "ready" ->
            /\ bufLock = "free"
            /\ bufLock' = "held"
            /\ cpc' = "start_recording"
            /\ ret' = [NoRet EXCEPT !.op = "handle_transmission_start"]
            /\ UNCHANGED <<is_recording, write_index, buffer, start_time, added,
                           stops, clip, amVars>>
         [] cpc = "start_recording" ->
            /\ bufLock = "free"
            /\ buffer' = ZeroBuffer /\ write_index' = 0
            /\ is_recording' = TRUE /\ start_time' = now
            /\ current_transmission_metadata' = StartedMetadata
            /\ peak_signal_strength' = SquelchThreshold + 1
            /\ current_zello_status' = FreshStatus
            /\ cpc' = "ready" /\ added' = <<>> /\ stops' = 0
            /\ UNCHANGED <<bufLock, ret, clip, handoffs>>
    /\ UNCHANGED <<appVars, scanVars, dspVars>>

\* handle_transmission_audio (audio.py:565-587) called with one block, the
\* manager's audio enabled.  The block goes to add_samples as it came
\* (line 572); the same block goes to play_audio (576), which, with a
\* device, runs it through the DSP chain (audio.py:190, 224) and writes the
\* chain's output to the stream; ndsp counts these calls of process.  A
\* subscript of the status attribute that
\* was never set raises AttributeError; a ValueError of add_samples reaches
\* the caller as well.  ret keeps the sink's answer, the block, and what
\* was written to the stream.
AmHandleTransmissionAudio ==
    /\ cpc = "ready" /\ bufLock = "free"
    /\ ndsp < MaxPlayed
    /\ \E samples \in Blocks, sink \in Sinks :
        /\ Len(added) + Len(samples) <= MaxAdded
        /\ LET r == AddSamples(samples)
               d == DspProcess(enabled_modules, noise_gate, agc, samples)
               call == [op |-> "handle_transmission_audio", audio |-> samples,
                        duration |-> 0, err |-> "none", sink |-> sink,
                        played |-> <<>>]
           IN  IF Len(samples) = 0
               THEN /\ UNCHANGED <<buffer, write_index, added, noise_gate, agc,
                                    ndsp>>
                    /\ IF current_zello_status.set
                       THEN /\ current_zello_status' =
                                  [current_zello_status EXCEPT
                                      !.error = "Audio disabled or empty data"]
                            /\ ret' = [call EXCEPT !.err = "none"]
                       ELSE /\ UNCHANGED current_zello_status
                            /\ ret' = [call EXCEPT !.err = "AttributeError"]
               ELSE /\ buffer' = r.buffer
                    /\ write_index' = r.write_index
                    /\ added' = IF is_recording THEN added \o samples ELSE added
                    /\ IF r.err # "none"
                       THEN /\ UNCHANGED <<current_zello_status, noise_gate, agc,
                                            ndsp>>
                            /\ ret' = [call EXCEPT !.err = r.err]
                       ELSE /\ IF sink = "unavailable"
                               THEN UNCHANGED <<noise_gate, agc, ndsp>>
                               ELSE /\ noise_gate' = d.gate
                                    /\ agc' = d.agc
                                    /\ ndsp' = ndsp + 1
                            /\ IF ~current_zello_status.set
                               THEN /\ UNCHANGED current_zello_status
                                    /\ ret' = [call EXCEPT
                                         !.err = "AttributeError",
                                         !.played = IF sink = "ok" THEN d.output
                                                    ELSE <<>>]
                               ELSE /\ current_zello_status' =
                                          [set |-> TRUE, sent |-> TRUE,
                                           success |-> sink = "ok",
                                           error |-> SinkError(sink)]
                                    /\ ret' = [call EXCEPT
                                         !.played = IF sink = "ok" THEN d.output
                                                    ELSE <<>>]
    /\ UNCHANGED <<appVars, scanVars, enabled_modules, equalizer, dspLock, proc,
                   upd, dspRet, bufLock, is_recording, start_time, cpc,
                   stops, clip, current_transmission_metadata,
                   peak_signal_strength, handoffs>>

\* handle_transmission_end (audio.py:589-644) called for a frequency.
AmHandleTransmissionEnd ==
    /\ cpc = "ready"
    /\ Len(handoffs) < MaxLogs
    /\ \E f \in Freqs : HandleTransmissionEnd(f)
    /\ ret' = [NoRet EXCEPT !.op = "handle_transmission_end"]
    /\ UNCHANGED <<appVars, scanVars, dspVars, cpc, added, stops, clip>>

NextAudio ==
    \/ AmHandleTransmissionStart
    \/ AmHandleTransmissionAudio
    \/ AmHandleTransmissionEnd
    \/ TickTo(MaxAudioTime)

SpecAudio == InitAudio /\ [][NextAudio]_vars

(***************************************************************************)
(* SpecScan: the scan loop task and the calls of the scanner's API that    *)
(* the routes make (api.py:85-275).  The targets of the initial scan list  *)
(* carry priorities; the targets add_frequency appends carry None.  A      *)
(* device is attached, so tuning can fail.                                 *)
(***************************************************************************)
InitialTargets == {Target(f, e, p) : f \in Freqs, e \in BOOLEAN, p \in Priorities}
InitialScanLists ==
    {<<>>} \cup {<<t>> : t \in InitialTargets}
           \cup {<<t, u>> : t \in {x \in InitialTargets : x.frequency = 1},
                            u \in {x \in InitialTargets : x.frequency = 2}}

InitScan ==
    /\ audio_manager = FALSE
    /\ active_transmissions = <<>>
    /\ now = 0
    /\ spc = "idle"
    /\ scur = NoCycle
    /\ nscans = 0
    /\ mon = [m \in Monitors |-> FreeSlot]
    /\ nextLogId = 1
    /\ lastEnd = NoEnd
    /\ belowSince = [f \in Freqs |-> -1]
    /\ InitBuffer
    /\ InitAudioManager
    /\ InitClient
    /\ scan_list \in InitialScanLists
    /\ is_scanning = FALSE
    /\ scan_index = 0
    /\ quiet_skip_count = [f \in Freqs |-> 0]
    /\ frequency_activity = <<>>
    /\ adaptive_delay_enabled = TRUE
    /\ scan_delay = DefaultScanDelay
    /\ center_freq = 0
    /\ cancelled = <<>>
    /\ streak = NoStreak
    /\ priority_weights = <<>>
    /\ priority_scanning_enabled = TRUE
    /\ smart_scanning_enabled = TRUE
    /\ priority_multiplier = DefaultMultiplier
    /\ min_priority_weight \in MinWeights
    /\ lpc = "none"
    /\ cur = NoTarget
    /\ candidates = <<>>
    /\ db = {}
    /\ last = NoLast
    /\ ncycles = 0
    /\ api = NoCall
    /\ ncalls = 0
    /\ InitDsp

notScanVars == <<appVars, bufVars, amVars, clientVars, dspVars>>

\* One more call of the API is made.
Call ==
    /\ ncalls < MaxCalls
    /\ ncalls' = ncalls + 1

\* The loop leaves its while or its try: finally, is_scanning = False
\* (sdr.py:252-255).
LoopExit ==
    /\ is_scanning' = FALSE
    /\ lpc' = "done"
    /\ UNCHANGED <<cur, candidates, scan_index>>

\* From the while test to the await in _tune_to_frequency (sdr.py:222-238),
\* with weights the weights dict at that point.
LoopIteration(weights) ==
    /\ priority_weights' = weights
    /\ IF ~(is_scanning /\ scan_list # <<>>)
       THEN LoopExit
       ELSE LET r == SmartFrequencyList(scan_list, smart_scanning_enabled,
                                        quiet_skip_count)
            IN  IF r.err # "none" THEN LoopExit
                ELSE IF r.list = <<>>
                THEN /\ lpc' = "sleep"
                     /\ UNCHANGED <<is_scanning, cur, candidates, scan_index>>
                ELSE /\ lpc' = "cycle"
                     /\ candidates' = r.list
                     /\ UNCHANGED is_scanning
                     /\ IF priority_scanning_enabled \/ smart_scanning_enabled
                        THEN /\ \E i \in DOMAIN r.list : cur' = r.list[i]
                             /\ UNCHANGED scan_index
                        ELSE /\ scan_index' = (scan_index + 1) % Len(r.list)
                             /\ cur' = r.list[((scan_index + 1) % Len(r.list)) + 1]

\* The _scan_loop task runs to its next await (sdr.py:215-255).
\*  "start": the task's first run; the weights are initialised (219-220).
\*  "sleep", "delay": the sleep of line 226 or 250 is over.
\*  "cycle": tuning and sampling (238-241, 354-405), then the bookkeeping
\*      of _update_scanning_state (306-328) and the await of the delay.  A
\*      tuning error is logged (364-365) and the samples are read all the
\*      same; an error in _check_for_transmission gives -100.0 (403-405).
\* bounded: at most MaxCycles cycles are sampled; otherwise the loop goes on
\* for ever, and no frequency is quiet more than MaxQuiet scans in a row.
ScanLoopFor(bounded) ==
    /\ CASE lpc = "start" ->
            /\ IF priority_scanning_enabled
               THEN LET r == InitializePriorityScanning(
                                scan_list, min_priority_weight, priority_multiplier)
                    IN  IF r.err # "none"
                        THEN priority_weights' = r.weights /\ LoopExit
                        ELSE LoopIteration(r.weights)
               ELSE LoopIteration(priority_weights)
            /\ UNCHANGED <<quiet_skip_count, last, ncycles, cycleVars>>
         [] lpc \in {"sleep", "delay"} ->
            /\ LoopIteration(priority_weights)
            /\ UNCHANGED <<quiet_skip_count, last, ncycles, cycleVars>>
         [] lpc = "cycle" ->
            /\ bounded => ncycles < MaxCycles
            /\ ncycles' = IF bounded THEN ncycles + 1 ELSE ncycles
            /\ \E tune_error \in BOOLEAN, sample_error \in BOOLEAN,
                  power \in CycleReadings :
                LET signal_strength == IF sample_error THEN FloorReading ELSE power
                    is_active == signal_strength > SquelchThreshold
                    freq_key == cur.frequency
                    st == UpdateScanningState(quiet_skip_count, frequency_activity,
                                              freq_key, signal_strength)
                IN  /\ bounded \/ st.quiet[freq_key] <= MaxQuiet
                    /\ center_freq' = IF tune_error THEN center_freq ELSE freq_key
                    /\ quiet_skip_count' = st.quiet
                    /\ frequency_activity' = st.activity
                    /\ streak' = [streak EXCEPT ![freq_key] =
                            IF is_active THEN [detection |-> 0, reset |-> 0]
                            ELSE [detection |-> @.detection + 1,
                                  reset |-> @.reset + 1]]
                    /\ last' = [frequency |-> freq_key,
                                reading |-> signal_strength,
                                err |-> IF sample_error THEN "sample"
                                        ELSE IF tune_error THEN "tune"
                                        ELSE "none",
                                tuned |-> center_freq',
                                events |-> CycleEvents(tune_error, sample_error,
                                                       power),
                                delay |-> CalculateAdaptiveDelay(
                                            adaptive_delay_enabled, scan_delay,
                                            st.quiet[freq_key], signal_strength)]
            /\ lpc' = "delay"
            /\ UNCHANGED <<is_scanning, cur, candidates, scan_index,
                           priority_weights>>
         [] OTHER -> FALSE
    /\ UNCHANGED <<scan_list, priority_scanning_enabled, smart_scanning_enabled,
                   priority_multiplier, min_priority_weight, db, api, ncalls,
                   settingVars, cancelled, notScanVars>>

ScanLoop == ScanLoopFor(TRUE)
ScanLoopForever == ScanLoopFor(FALSE)

\* start_scanning (sdr.py:185-198).
StartScanning ==
    /\ Call
    /\ api' = [op |-> "start_scanning", err |-> "none"]
    /\ IF is_scanning \/ scan_list = <<>>
       THEN UNCHANGED <<is_scanning, scan_index, lpc>>
       ELSE /\ is_scanning' = TRUE
            /\ scan_index' = 0
            /\ lpc' = "start"
    /\ UNCHANGED <<scan_list, quiet_skip_count, priority_weights,
                   priority_scanning_enabled, smart_scanning_enabled,
                   priority_multiplier, min_priority_weight, db, cur, candidates, last,
                   ncycles, cycleVars, settingVars, cancelled,
                   notScanVars>>

\* stop_scanning (sdr.py:200-213): is_scanning = False, the task is
\* cancelled and awaited.  The cancelled task stays alive until the event
\* loop wakes it; cancelled keeps, for each such task, whether its
\* coroutine had begun to run (one that had not never enters its try).
StopScanning ==
    /\ Call
    /\ api' = [op |-> "stop_scanning", err |-> "none"]
    /\ IF ~is_scanning
       THEN UNCHANGED <<is_scanning, lpc, cancelled>>
       ELSE /\ is_scanning' = FALSE
            /\ lpc' = "cancelled"
            /\ cancelled' = Append(cancelled, lpc # "start")
    /\ UNCHANGED <<scan_list, scan_index, quiet_skip_count, priority_weights,
                   priority_scanning_enabled, smart_scanning_enabled,
                   priority_multiplier, min_priority_weight, db, cur, candidates, last,
                   ncycles, cycleVars, settingVars, notScanVars>>

\* The event loop wakes the cancelled task that waited longest:
\* CancelledError is raised at its await, no except clause of the loop
\* catches it, and the finally of line 254 sets is_scanning = False.
CancelledTaskEnds ==
    /\ cancelled # <<>>
    /\ cancelled' = Tail(cancelled)
    /\ is_scanning' = IF Head(cancelled) THEN FALSE ELSE is_scanning
    /\ UNCHANGED <<scan_list, scan_index, quiet_skip_count, priority_weights,
                   priority_scanning_enabled, smart_scanning_enabled,
                   priority_multiplier, min_priority_weight, db, lpc, cur,
                   candidates, last, ncycles, api, ncalls, cycleVars,
                   settingVars, notScanVars>>

\* add_frequency (sdr.py:590-599).
AddFrequency ==
    /\ Call
    /\ Len(scan_list) < MaxTargets
    /\ \E f \in Freqs : scan_list' = Append(scan_list, Target(f, TRUE, PriorityNone))
    /\ api' = [op |-> "add_frequency", err |-> "none"]
    /\ UNCHANGED <<is_scanning, scan_index, quiet_skip_count, priority_weights,
                   priority_scanning_enabled, smart_scanning_enabled,
                   priority_multiplier, min_priority_weight, db, lpc, cur, candidates, last,
                   ncycles, cycleVars, settingVars, cancelled,
                   notScanVars>>

\* create_frequency (api.py:68-95): the value is looked up in the table
\* (76-78), the row is inserted (81) and the scanner's add_frequency
\* called (85).  None of the awaited calls suspends, so two requests do not
\* interleave.
CreateFrequency ==
    /\ Call
    /\ \E f \in Freqs :
        IF f \in db
        THEN /\ api' = [op |-> "create_frequency", err |-> "400"]
             /\ UNCHANGED <<db, scan_list>>
        ELSE /\ Len(scan_list) < MaxTargets
             /\ db' = db \cup {f}
             /\ scan_list' = Append(scan_list, Target(f, TRUE, PriorityNone))
             /\ api' = [op |-> "create_frequency", err |-> "none"]
    /\ UNCHANGED <<is_scanning, scan_index, quiet_skip_count, priority_weights,
                   priority_scanning_enabled, smart_scanning_enabled,
                   priority_multiplier, min_priority_weight, lpc, cur, candidates, last,
                   ncycles, cycleVars, settingVars, cancelled,
                   notScanVars>>

RECURSIVE Without(_, _)
Without(list, f) ==
    IF list = <<>> THEN <<>>
    ELSE IF Head(list).frequency # f THEN <<Head(list)>> \o Without(Tail(list), f)
    ELSE Without(Tail(list), f)

\* remove_frequency (sdr.py:601-604).
RemoveFrequency ==
    /\ Call
    /\ \E f \in Freqs : scan_list' = Without(scan_list, f)
    /\ api' = [op |-> "remove_frequency", err |-> "none"]
    /\ UNCHANGED <<is_scanning, scan_index, quiet_skip_count, priority_weights,
                   priority_scanning_enabled, smart_scanning_enabled,
                   priority_multiplier, min_priority_weight, db, lpc, cur, candidates, last,
                   ncycles, cycleVars, settingVars, cancelled,
                   notScanVars>>

\* The call of _initialize_priority_scanning that ends op when priority
\* scanning is enabled (mult: the multiplier in force).
Reinitialize(op, enabled, mult) ==
    LET r == InitializePriorityScanning(scan_list, min_priority_weight, mult)
    IN  IF enabled
        THEN /\ priority_weights' = r.weights
             /\ api' = [op |-> op, err |-> r.err]
        ELSE /\ UNCHANGED priority_weights
             /\ api' = [op |-> op, err |-> "none"]

\* set_priority_multiplier (sdr.py:512-517).
SetPriorityMultiplier ==
    /\ Call
    /\ \E multiplier \in MultiplierArgs :
        /\ priority_multiplier' = ClampMultiplier(multiplier)
        /\ Reinitialize("set_priority_multiplier", priority_scanning_enabled,
                        ClampMultiplier(multiplier))
    /\ UNCHANGED <<scan_list, is_scanning, scan_index, quiet_skip_count,
                   priority_scanning_enabled, smart_scanning_enabled,
                   min_priority_weight, db, lpc, cur, candidates, last, ncycles, cycleVars, settingVars, cancelled,
                   notScanVars>>

\* enable_priority_scanning (sdr.py:501-505).
EnablePriorityScanning ==
    /\ Call
    /\ priority_scanning_enabled' = TRUE
    /\ Reinitialize("enable_priority_scanning", TRUE, priority_multiplier)
    /\ UNCHANGED <<scan_list, is_scanning, scan_index, quiet_skip_count,
                   smart_scanning_enabled, priority_multiplier,
                   min_priority_weight, db, lpc, cur, candidates, last, ncycles, cycleVars, settingVars, cancelled,
                   notScanVars>>

\* disable_priority_scanning (sdr.py:507-510).
DisablePriorityScanning ==
    /\ Call
    /\ priority_scanning_enabled' = FALSE
    /\ api' = [op |-> "disable_priority_scanning", err |-> "none"]
    /\ UNCHANGED <<scan_list, is_scanning, scan_index, quiet_skip_count,
                   priority_weights, smart_scanning_enabled, priority_multiplier,
                   min_priority_weight, db, lpc, cur, candidates, last, ncycles, cycleVars, settingVars, cancelled,
                   notScanVars>>

\* enable_smart_scanning, disable_smart_scanning (sdr.py:481-489).
SetSmartScanning ==
    /\ Call
    /\ \E on \in BOOLEAN :
        /\ smart_scanning_enabled' = on
        /\ api' = [op |-> IF on THEN "enable_smart_scanning"
                          ELSE "disable_smart_scanning", err |-> "none"]
    /\ UNCHANGED <<scan_list, is_scanning, scan_index, quiet_skip_count,
                   priority_weights, priority_scanning_enabled,
                   priority_multiplier, min_priority_weight, db, lpc, cur, candidates, last,
                   ncycles, cycleVars, settingVars, cancelled,
                   notScanVars>>

\* reset_scanning_state (sdr.py:519-527).
ResetScanningState ==
    /\ Call
    /\ quiet_skip_count' = [f \in Freqs |-> 0]
    /\ frequency_activity' = <<>>
    /\ streak' = [f \in Freqs |-> [streak[f] EXCEPT !.reset = 0]]
    /\ Reinitialize("reset_scanning_state", priority_scanning_enabled,
                    priority_multiplier)
    /\ UNCHANGED <<scan_list, is_scanning, scan_index,
                   priority_scanning_enabled, smart_scanning_enabled,
                   priority_multiplier, min_priority_weight, db, lpc, cur, candidates, last,
                   ncycles, center_freq, settingVars, cancelled, notScanVars>>

NextScan ==
    \/ ScanLoop
    \/ StartScanning
    \/ StopScanning
    \/ CancelledTaskEnds
    \/ AddFrequency
    \/ CreateFrequency
    \/ RemoveFrequency
    \/ SetPriorityMultiplier
    \/ EnablePriorityScanning
    \/ DisablePriorityScanning
    \/ SetSmartScanning
    \/ ResetScanningState

SpecScan == InitScan /\ [][NextScan]_vars

(***************************************************************************)
(* SpecCycle: the bookkeeping of the scan cycle.  The scanner has been     *)
(* started again after earlier scanning: its targets are enabled and carry *)
(* priorities, and its quiet counts and activity scores are those earlier  *)
(* cycles left; the adaptive delay is as enable_adaptive_delay or          *)
(* disable_adaptive_delay left it (sdr.py:491-499) and settings.scan_delay *)
(* as the settings file or update_settings set it (api.py:524-525).        *)
(* Besides the loop, reset_scanning_state is called.                       *)
(***************************************************************************)
CycleTargets == {Target(f, TRUE, p) : f \in Freqs, p \in Priorities}
CycleScanLists ==
    {<<t>> : t \in CycleTargets}
        \cup {<<t, u>> : t \in {x \in CycleTargets : x.frequency = 1},
                         u \in {x \in CycleTargets : x.frequency = 2}}
\* Quiet counts earlier cycles left: none, and one short of the threshold.
CycleQuiet == {0, QuietThreshold - 1}
\* Activity dicts earlier cycles left: empty, or a score of 0.5 or of 9.5
\* for every frequency.
CycleActivity == {<<>>} \cup [Freqs -> {1, MaxActivity - 1}]

InitCycle ==
    /\ audio_manager = FALSE
    /\ active_transmissions = <<>>
    /\ now = 0
    /\ spc = "idle"
    /\ scur = NoCycle
    /\ nscans = 0
    /\ mon = [m \in Monitors |-> FreeSlot]
    /\ nextLogId = 1
    /\ lastEnd = NoEnd
    /\ belowSince = [f \in Freqs |-> -1]
    /\ InitBuffer
    /\ InitAudioManager
    /\ InitClient
    /\ scan_list \in CycleScanLists
    /\ is_scanning = TRUE
    /\ scan_index = 0
    /\ \E q \in CycleQuiet :
          /\ quiet_skip_count = [f \in Freqs |-> q]
          /\ streak = [f \in Freqs |-> [detection |-> q, reset |-> q]]
    /\ frequency_activity \in CycleActivity
    /\ adaptive_delay_enabled \in BOOLEAN
    /\ scan_delay \in ScanDelays
    /\ center_freq = 0
    /\ cancelled = <<>>
    /\ priority_weights = <<>>
    /\ priority_scanning_enabled = TRUE
    /\ smart_scanning_enabled = TRUE
    /\ priority_multiplier = DefaultMultiplier
    /\ min_priority_weight = DefaultMinWeight
    /\ lpc = "start"
    /\ cur = NoTarget
    /\ candidates = <<>>
    /\ db = {}
    /\ last = NoLast
    /\ ncycles = 0
    /\ api = NoCall
    /\ ncalls = 0
    /\ InitDsp

NextCycle ==
    \/ ScanLoop
    \/ ResetScanningState

SpecCycle == InitCycle /\ [][NextCycle]_vars

\* The loop alone, running for ever.  The task is scheduled whenever it can
\* run, and the random choice of lines 580-582 is fair: a frequency that
\* is a candidate again and again is selected again and again.
NextForever == ScanLoopForever

\* The delay settings are the defaults.
InitForever ==
    /\ InitCycle
    /\ adaptive_delay_enabled
    /\ scan_delay = DefaultScanDelay

FairSpecCycle ==
    /\ InitForever
    /\ [][NextForever]_vars
    /\ WF_vars(ScanLoopForever)
    /\ \A f \in Freqs :
          SF_vars(ScanLoopForever /\ lpc' = "cycle" /\ cur'.frequency = f)

(***************************************************************************)
(* Properties.                                                             *)
(***************************************************************************)
IsOpen(f) == f \in DOMAIN active_transmissions
MonitorsOf(f) == {m \in Monitors : mon[m].st = "sleep" /\ mon[m].freq = f}

\* Monitor m ran one iteration in this step.
Polled(m) == mon[m].st = "sleep" /\ mon'[m] # mon[m]
\* Monitor m left its loop in this step.
Exited(m) == mon[m].st = "sleep" /\ mon'[m].st = "free"

\* C1: a detection on a frequency with no open lifecycle, handled with the
\* audio manager in place, leads to the state in which the handler has
\* finished: the frequency has a record whose last and peak signal are the
\* detected strength, the buffer is recording and holds audio, and a monitor
\* of the frequency is running.
C1_DetectionOpensLifecycle ==
    \A f \in Freqs : \A s \in Readings :
        (spc = "event" /\ audio_manager /\ scur.f = f /\ scur.s = s /\ ~IsOpen(f))
        ~> (/\ spc = "idle"
            /\ IsOpen(f)
            /\ active_transmissions[f].last_signal = s
            /\ active_transmissions[f].peak_signal = s
            /\ is_recording /\ write_index > 0
            /\ MonitorsOf(f) # {})

\* C2: a detection on a frequency that already has an open lifecycle leaves
\* the record (start time, peak, log row) and the recording (flag, cursor,
\* audio) as they were.
C2_OpeningIsIdempotent ==
    [][\A f \in Freqs :
          (spc = "event" /\ spc' # spc /\ scur.f = f /\ IsOpen(f))
          => /\ f \in DOMAIN active_transmissions'
             /\ active_transmissions'[f].start_time = active_transmissions[f].start_time
             /\ active_transmissions'[f].peak_signal = active_transmissions[f].peak_signal
             /\ active_transmissions'[f].transmission_log_id
                    = active_transmissions[f].transmission_log_id
             /\ is_recording' = is_recording
             /\ write_index' = write_index
             /\ buffer' = buffer]_vars

\* C3: no frequency has more than one monitor task at a time (its record is
\* one dict entry).
C3_OneMonitorPerFrequency ==
    \A f \in Freqs : Cardinality(MonitorsOf(f)) <= 1

C6_SafetyLimitCloses ==
    \A f \in DOMAIN active_transmissions :
        now - active_transmissions[f].start_time <= SafetyLimitTicks + 1

\* C7: a monitor that leaves its loop through end_transmission leaves no
\* record of its frequency and a buffer that is not recording.
C7_CloseRemovesRecord ==
    [][\A m \in Monitors :
          (Exited(m) /\ IsOpen(mon[m].freq))
          => /\ mon[m].freq \notin DOMAIN active_transmissions'
             /\ ~is_recording']_vars

C10_RoundTrip ==
    /\ cpc = "start_recording" => ENABLED BufStartRecording
    /\ ret.op = "stop_recording"
       => /\ Len(ret.audio) <= MaxSamples
          /\ Len(added) <= MaxSamples => ret.audio = AsFloat32Seq(added)

C12_CursorInRange ==
    0 <= write_index /\ write_index <= MaxSamples

\* C12 witness: an add_samples call that offered more than the buffer had
\* room for has returned, the cursor at the end of the buffer.
C12_Witness ==
    /\ ret.op = "add_samples" /\ ret.err = "none"
    /\ Len(added) > MaxSamples
    /\ write_index = MaxSamples

\* C13: the array a stop_recording returned keeps the samples it was
\* returned with, whatever is done to the buffer afterwards.
C13_ClipIsCopy ==
    clip.taken => ClipNow = clip.audio

\* C13 witness: a non-empty clip was returned and the buffer was cleared
\* afterwards.
C13_Witness ==
    /\ clip.taken /\ Len(clip.audio) > 0
    /\ ret.op = "clear"
    /\ SubSeq(buffer, 1, Len(clip.audio)) # clip.audio

\* C14: a start_recording call returns, and when it has returned the buffer
\* holds no samples, the cursor is 0, the recording flag is set and the
\* start time is the time of the call.
C14_StartRecordingClears ==
    (cpc = "start_recording")
    ~> (/\ cpc = "ready"
        /\ is_recording
        /\ write_index = 0
        /\ buffer = ZeroBuffer
        /\ start_time = now)

\* The loop task ran from a sleep to its next await or to its end.
LoopRan ==
    lpc \in {"sleep", "delay"} /\ lpc' \in {"cycle", "sleep", "done"} /\ lpc' # lpc

EnabledIdx == {i \in DOMAIN scan_list : scan_list[i].enabled}
AlwaysOrNotQuietIdx ==
    {i \in EnabledIdx : \/ scan_list[i].priority >= AlwaysScanPriority
                        \/ quiet_skip_count[scan_list[i].frequency] < QuietThreshold}
ExpectedIdx == IF AlwaysOrNotQuietIdx # {} THEN AlwaysOrNotQuietIdx ELSE EnabledIdx

\* C15: with smart scanning on and an enabled target, an iteration of the
\* loop selects from exactly the enabled targets of priority at least 50 or
\* with a quiet count below the threshold, or from all enabled targets when
\* there is none of these.
C15_SmartCandidates ==
    [][(LoopRan /\ is_scanning /\ smart_scanning_enabled /\ EnabledIdx # {})
       => /\ lpc' = "cycle"
          /\ Len(candidates') = Cardinality(ExpectedIdx)
          /\ Range(candidates') = {scan_list[i] : i \in ExpectedIdx}]_vars

C17_WeightsCurrentAtSelection ==
    [][(LoopRan /\ lpc' = "cycle" /\ priority_scanning_enabled)
       => /\ DOMAIN priority_weights = FrequenciesOf(EnabledOf(scan_list))
          /\ priority_weights =
                InitializePriorityScanning(scan_list, min_priority_weight,
                                           priority_multiplier).weights]_vars

C19_ScansUntilStopped ==
    [][(is_scanning /\ ~is_scanning') => lpc' = "cancelled"]_vars

\* C20: a cycle in which tuning or sampling failed ends with the reading
\* -100 dBm, one more quiet scan counted for the target, and the loop
\* scanning on in its delay.
C20_CycleErrorIsFloor ==
    [][(lpc = "cycle" /\ lpc' = "delay" /\ last'.err # "none")
       => /\ last'.reading = FloorReading
          /\ quiet_skip_count'[cur.frequency] = quiet_skip_count[cur.frequency] + 1
          /\ is_scanning']_vars

\* C21: once stop_scanning has cancelled the scan loop no scan cycle begins,
\* and a monitor that was in flight then has closed its lifecycle and ended
\* by the time the longest wait the monitor knows, the safety limit and one
\* poll, has passed since the call.
C21_StopLeavesMonitorsToFinish ==
    /\ [][spc = "cancelled" => (spc' = "cancelled" /\ scur' = scur)]_vars
    /\ [](spc = "cancelled"
          => \A m \in Monitors :
                (mon[m].st = "sleep" \/ IsOpen(1))
                => now - scur.ts <= SafetyLimitTicks + 1)

\* C30: a call of an AudioBuffer method that has begun can go on to its
\* end, and between calls the lock is free.
C30_NoCallBlocks ==
    /\ cpc = "ready" => bufLock = "free"
    /\ cpc # "ready" => ENABLED BufStartRecording

\* C28: a call of handle_transmission_audio with a block of audio whose
\* playback fails or has no sink returns without an error, has put the
\* block into a recording buffer, and leaves a status with success false
\* and the sink's error text.
C28_PlaybackFailureRecorded ==
    [][(/\ ret' # ret
        /\ ret'.op = "handle_transmission_audio"
        /\ Len(ret'.audio) > 0
        /\ ret'.sink # "ok")
       => /\ ret'.err = "none"
          /\ is_recording =>
                write_index' = Min(MaxSamples, write_index + Len(ret'.audio))
          /\ current_zello_status'.set
          /\ ~current_zello_status'.success
          /\ current_zello_status'.error = SinkError(ret'.sink)]_vars

\* The multipliers the route accepts (api.py:266), in halves.
ValidMultipliers == 2..20

\* C27: no two entries of scan_list have the same frequency value.
C27_FrequenciesUnique ==
    \A i, j \in DOMAIN scan_list :
        scan_list[i].frequency = scan_list[j].frequency => i = j

\* C29: a call of set_priority_multiplier with a multiplier outside
\* [1.0, 10.0] leaves the multiplier and the weights as they were.
C29_InvalidMultiplierRejected ==
    [][(/\ ncalls' # ncalls
        /\ api'.op = "set_priority_multiplier"
        /\ MultiplierArgs \cap ValidMultipliers = {})
       => UNCHANGED <<priority_multiplier, priority_weights>>]_vars

C23_FailureReturnsInput ==
    (dspRet.op = "process" /\ dspRet.raised)
        => /\ dspRet.err = "none"
           /\ dspRet.output = dspRet.input

\* C24: process never overlaps update_config or set_eq_gain, and from the
\* moment process holds the lock until it returns, the flags and the
\* parameters it reads do not change.
C24_ConfigStableDuringFrame ==
    /\ [](~(proc.pc \in StageNames /\ upd.pc = "flags"))
    /\ [][proc.pc \in StageNames
            => /\ enabled_modules' = enabled_modules
               /\ equalizer' = equalizer
               /\ agc'.max_gain = agc.max_gain]_vars

C24_Witness ==
    /\ proc.pc \in StageNames
    /\ proc.applied # <<>>
    /\ upd.pc = "acquire"
    /\ upd.op = "update_config"
    /\ upd.config.has_flags

\* C25: at every sample the gate is open when the envelope is above the
\* threshold, closed when it is below threshold - 6 dB, and otherwise as it
\* was at the sample before (for the first sample of a call: as the previous
\* call left it); the output is the input where the gate is open and zero
\* where it is closed; and the stored state changes only by such a call.
C25_GateHysteresis ==
    /\ [](dspRet.op = "process" =>
            \A i \in DOMAIN dspRet.gate.mask :
                LET e == dspRet.gate.envelopes[i]
                    before == IF i = 1 THEN dspRet.gate.before
                              ELSE dspRet.gate.mask[i - 1]
                    open == dspRet.gate.mask[i]
                IN  /\ e > LinearOf(GateThreshold, Unit) => open
                    /\ e < LinearOf(GateThreshold - 6, Unit) => ~open
                    /\ (e <= LinearOf(GateThreshold, Unit)
                        /\ e >= LinearOf(GateThreshold - 6, Unit))
                            => open = before
                    /\ dspRet.gate.output[i] =
                            IF open THEN dspRet.gate.input[i] ELSE 0)
    /\ [][noise_gate'.gate_state # noise_gate.gate_state
            => /\ proc.pc = "noise_gate"
               /\ proc'.gate.before = noise_gate.gate_state
               /\ proc'.gate.mask[Len(proc'.gate.mask)] = noise_gate'.gate_state]_vars

C25_Witness ==
    /\ dspRet.op = "process"
    /\ dspRet.gate.mask # <<>>
    /\ dspRet.gate.before
    /\ dspRet.gate.mask[1]
    /\ dspRet.gate.envelopes[1] <= LinearOf(GateThreshold, Unit)
    /\ dspRet.gate.input[1] # 0
    /\ dspRet.gate.output[1] = dspRet.gate.input[1]

\* C26: every gain the AGC applies to a sample lies between 10^(-60/20) and
\* 10^(max_gain/20), max_gain being the value in force when the call runs.
C26_GainWithinBounds ==
    dspRet.op = "process" =>
        \A i \in DOMAIN dspRet.gains.gains :
            /\ dspRet.gains.gains[i] >= LinearOf(MinGainDb, GainUnit)
            /\ dspRet.gains.gains[i] <= LinearOf(dspRet.gains.max_gain, GainUnit)

\* C40: at every poll that keeps a monitor running, the monitor restarts its
\* timeout clock exactly when the scanner's detection test is true for the
\* reading it looks at, the record's last observed signal.
C40_MonitorAgreesWithScanner ==
    [][\A m \in Monitors :
         (Polled(m) /\ mon'[m].st = "sleep" /\ IsOpen(mon[m].freq))
            => ((mon'[m].start = now)
                  <=> DetectTransmission(
                         active_transmissions[mon[m].freq].last_signal))]_vars

\* C31: an observation on a frequency with an open record sets last_signal
\* to the reading; in every state peak_signal is at least last_signal; and
\* as long as the record stays open, through repeated detections too,
\* peak_signal does not decrease.
C31_PeakNeverDecreases ==
    /\ [](\A f \in Freqs : IsOpen(f) =>
            active_transmissions[f].peak_signal >= active_transmissions[f].last_signal)
    /\ [][(spc = "signal" /\ spc' # spc /\ IsOpen(scur.f))
            => active_transmissions'[scur.f].last_signal = scur.s]_vars
    /\ [][\A f \in Freqs :
            (IsOpen(f) /\ f \in DOMAIN active_transmissions')
                => active_transmissions'[f].peak_signal
                        >= active_transmissions[f].peak_signal]_vars

C36_AddSamplesNoOp ==
    [][(BufAddSamples /\ (~is_recording \/ Len(ret'.audio) = 0))
        => /\ ret'.err = "none"
           /\ UNCHANGED <<buffer, write_index, is_recording>>
           /\ StopRecordingResult'.audio = StopRecordingResult.audio]_vars

C36_Witness ==
    /\ ret.op = "add_samples"
    /\ Len(ret.audio) > 0
    /\ ~is_recording
    /\ stops > 0
    /\ clip.taken
    /\ Len(clip.audio) > 0

CycleStep == lpc = "cycle" /\ lpc' = "delay"

\* C32 (as stated): after every cycle the quiet count of the scanned
\* frequency is the number of its scans in a row, up to this one, without a
\* detection.
C32_QuietCountSinceDetection ==
    [][CycleStep =>
         quiet_skip_count'[last'.frequency] = streak'[last'.frequency].detection]_vars

\* C32: after every cycle the quiet count of the scanned frequency is the
\* number of its scans in a row without a detection since its last
\* detection or the last reset_scanning_state, 0 right after a detection;
\* its activity score rose by one, to at most 10, on a detection and fell by
\* 0.5, to at least 0, on silence; every score is within [0, 10]; the
\* counts and scores of the other frequencies are unchanged.
C32_QuietCountAndActivity ==
    /\ [](\A f \in DOMAIN frequency_activity :
            0 <= frequency_activity[f] /\ frequency_activity[f] <= MaxActivity)
    /\ [][CycleStep =>
            LET f == last'.frequency
                detected == DetectTransmission(last'.reading)
                before == ActivityOf(frequency_activity, f)
            IN  /\ quiet_skip_count'[f] = streak'[f].reset
                /\ detected => quiet_skip_count'[f] = 0
                /\ ActivityOf(frequency_activity', f) =
                      IF detected THEN Min(MaxActivity, before + 2)
                      ELSE Max(0, before - 1)
                /\ \A g \in Freqs \ {f} :
                      /\ quiet_skip_count'[g] = quiet_skip_count[g]
                      /\ ActivityOf(frequency_activity', g)
                            = ActivityOf(frequency_activity, g)]_vars

\* A quiet scan after a reset_scanning_state that followed quiet scans: the
\* count is 1 and the frequency has gone longer without a detection.
C32_Witness ==
    /\ lpc = "delay"
    /\ ~DetectTransmission(last.reading)
    /\ quiet_skip_count[last.frequency] = 1
    /\ streak[last.frequency].detection > 1
    /\ ActivityOf(frequency_activity, last.frequency) = 0

\* C33: the delay after a cycle is scan_delay when the adaptive delay is
\* disabled; enabled, it is max(min_scan_delay, scan_delay / 2) when the
\* reading is above the squelch threshold, else
\* min(max_scan_delay, scan_delay * (1 + 0.2 * quiet count)) when the
\* updated quiet count is above quiet_threshold, else scan_delay.
C33_AdaptiveDelay ==
    [][CycleStep =>
         LET n == quiet_skip_count'[last'.frequency]
         IN  last'.delay =
               IF ~adaptive_delay_enabled THEN scan_delay
               ELSE IF last'.reading > SquelchThreshold
               THEN Max(MinScanDelay, scan_delay \div 2)
               ELSE IF n > QuietThreshold
               THEN Min(MaxScanDelay, scan_delay + (scan_delay * n) \div 5)
               ELSE scan_delay]_vars

\* A quiet scan past the threshold whose lengthened delay met the maximum.
C33_Witness ==
    /\ lpc = "delay"
    /\ adaptive_delay_enabled
    /\ ~DetectTransmission(last.reading)
    /\ quiet_skip_count[last.frequency] > QuietThreshold
    /\ last.delay = MaxScanDelay
    /\ scan_delay < MaxScanDelay

\* C34: in every cycle a block is sampled only after the device was tuned
\* to the selected frequency in that cycle; a sampled block has exactly one
\* signal-strength update, before any transmission callback; there is a
\* transmission callback only for a reading above the squelch threshold;
\* the delay ends the cycle.
C34_CycleInOrder ==
    [][CycleStep =>
         LET e == last'.events
             At(x) == {i \in DOMAIN e : e[i] = x}
         IN  /\ At("sample") # {}
                  => /\ \E i \in At("tuned") : \A j \in At("sample") : i < j
                     /\ last'.tuned = last'.frequency
             /\ Cardinality(At("signal_strength")) = Cardinality(At("sample"))
             /\ \A i \in At("signal_strength"), j \in At("transmission") : i < j
             /\ At("transmission") # {} => last'.reading > SquelchThreshold
             /\ e[Len(e)] = "delay"]_vars

\* The task start_scanning created last has not ended and is not cancelled.
ScanTaskRunning == lpc \in {"start", "sleep", "delay", "cycle"}

\* C38: is_scanning is true exactly when the scan loop task of the latest
\* start_scanning is running, and the end of a cancelled loop leaves
\* is_scanning alone while a newer loop runs.
C38_RestartStaysScanning ==
    /\ [](is_scanning <=> ScanTaskRunning)
    /\ [][(CancelledTaskEnds /\ ScanTaskRunning) => is_scanning' = is_scanning]_vars

\* f is an enabled target of the scan list.
EnabledTarget(f) ==
    \E i \in DOMAIN scan_list : scan_list[i].frequency = f /\ scan_list[i].enabled

====
